---- MODULE Spec2Model ----
(***************************************************************************)
(* StarDraft: the tick engine (services/gameLogic.ts), the command layer   *)
(* of the single-player GameCanvas, the peer-to-peer lobby                 *)
(* (services/network.ts, components/Lobby) and the command relay of the    *)
(* multiplayer GameCanvas (components/GameCanvas.tsx).                     *)
(*                                                                         *)
(* Geometry.  The world is restricted to one vertical line x = const:      *)
(* a position is its y coordinate, getDistance is the absolute difference, *)
(* every atan2 is +-PI/2, and every Math.random() that offsets x is taken  *)
(* at the draw that yields offset 0.  Positions are whole units; a         *)
(* collision push is rounded toward zero.                                  *)
(***************************************************************************)
EXTENDS Integers, Sequences, FiniteSets, TLC

(* ------------------------------ bounds --------------------------------- *)
MaxTime == 61
MaxId == 12
\* the player acts in every CmdEvery-th frame, and at any time once the match is decided
CmdEvery == 16

(* ------------------------------ enums ---------------------------------- *)
PLAYER == "PLAYER"
AI == "AI"
NEUTRAL == "NEUTRAL"
NoVictory == "undefined"
Owner == {PLAYER, AI, NEUTRAL}

WORKER == "WORKER"
MARINE == "MARINE"
MEDIC == "MEDIC"
BASE == "BASE"
BARRACKS == "BARRACKS"
BUNKER == "BUNKER"
SUPPLY_DEPOT == "SUPPLY_DEPOT"
MINERAL == "MINERAL"
MOUNTAIN == "MOUNTAIN"
WATER == "WATER"
EntityType == {WORKER, MARINE, MEDIC, BASE, BARRACKS, BUNKER, SUPPLY_DEPOT, MINERAL, MOUNTAIN, WATER}

EASY == "EASY"
MEDIUM == "MEDIUM"
HARD == "HARD"
Difficulty == {EASY, MEDIUM, HARD}

NoId == 0
NoPos == 0 - 9999

(* --------------------- constants.ts (not in src/) ---------------------- *)
\* The stats table and the game constants are configuration the engine only reads.
\* Small values stand for them: hit points of a few hits, build times of a few ticks.
STATS ==
  [t \in EntityType |->
     CASE t = WORKER ->
            [cost |-> 50, hp |-> 4, damage |-> 1, range |-> 10, vision |-> 100, speed |-> 5, attackSpeed |-> 2,
             buildTime |-> 3, radius |-> 5, supplyCost |-> 1, supplyProvided |-> 0, healRate |-> 0]
       [] t = MARINE ->
            [cost |-> 50, hp |-> 5, damage |-> 2, range |-> 60, vision |-> 100, speed |-> 5, attackSpeed |-> 3,
             buildTime |-> 3, radius |-> 5, supplyCost |-> 1, supplyProvided |-> 0, healRate |-> 0]
       [] t = MEDIC ->
            [cost |-> 75, hp |-> 4, damage |-> 0, range |-> 40, vision |-> 100, speed |-> 5, attackSpeed |-> 2,
             buildTime |-> 3, radius |-> 5, supplyCost |-> 1, supplyProvided |-> 0, healRate |-> 2]
       [] t = BASE ->
            [cost |-> 400, hp |-> 6, damage |-> 0, range |-> 0, vision |-> 100, speed |-> 0, attackSpeed |-> 0,
             buildTime |-> 4, radius |-> 20, supplyCost |-> 0, supplyProvided |-> 2, healRate |-> 0]
       [] t = BARRACKS ->
            [cost |-> 150, hp |-> 6, damage |-> 0, range |-> 0, vision |-> 100, speed |-> 0, attackSpeed |-> 0,
             buildTime |-> 4, radius |-> 15, supplyCost |-> 0, supplyProvided |-> 0, healRate |-> 0]
       [] t = BUNKER ->
            [cost |-> 100, hp |-> 6, damage |-> 0, range |-> 60, vision |-> 100, speed |-> 0, attackSpeed |-> 0,
             buildTime |-> 2, radius |-> 10, supplyCost |-> 0, supplyProvided |-> 0, healRate |-> 0]
       [] t = SUPPLY_DEPOT ->
            [cost |-> 100, hp |-> 4, damage |-> 0, range |-> 0, vision |-> 100, speed |-> 0, attackSpeed |-> 0,
             buildTime |-> 2, radius |-> 10, supplyCost |-> 0, supplyProvided |-> 120, healRate |-> 0]
       [] OTHER ->
            [cost |-> 0, hp |-> 100, damage |-> 0, range |-> 0, vision |-> 0, speed |-> 0, attackSpeed |-> 0,
             buildTime |-> 1, radius |-> 8, supplyCost |-> 0, supplyProvided |-> 0, healRate |-> 0]]

GATHER_TIME == 3
RESOURCE_GATHER_AMOUNT == 8
GAME_WIDTH == 400
GAME_HEIGHT == 400

(* --------------------------- small helpers ----------------------------- *)
Abs(n) == IF n < 0 THEN 0 - n ELSE n
Min(a, b) == IF a < b THEN a ELSE b
Max(a, b) == IF a > b THEN a ELSE b
CeilDiv(a, b) == (a + b - 1) \div b
Range(s) == {s[i] : i \in 1..Len(s)}
Remove(s, x) == SelectSeq(s, LAMBDA y : y # x)

RECURSIVE SumOver(_, _)
SumOver(f, S) == IF S = {} THEN 0 ELSE LET x == CHOOSE y \in S : TRUE IN f[x] + SumOver(f, S \ {x})

getDistance(p1, p2) == Abs(p1 - p2)

\* position + cos/sin(atan2(to - from)) * speed, on the line
StepToward(from, to, speed) == IF to >= from THEN from + speed ELSE from - speed

isBio(t) == t \in {WORKER, MARINE, MEDIC}
isBuilding(t) == t \in {BASE, BARRACKS, SUPPLY_DEPOT, BUNKER}
isTerrain(t) == t \in {MOUNTAIN, WATER}

createEntity(t, o, p) ==
  [type |-> t, owner |-> o, pos |-> p, hp |-> STATS[t].hp, maxHp |-> STATS[t].hp,
   targetId |-> NoId, targetPosition |-> NoPos, state |-> "IDLE", cooldown |-> 0,
   resourceAmount |-> IF t = MINERAL THEN 1250 ELSE 0,
   trainQueue |-> <<>>, trainProgress |-> 0, constructionProgress |-> 100,
   rallyPoint |-> NoPos, rallyTargetId |-> NoId, lastAttackerId |-> NoId,
   garrison |-> <<>>, containerId |-> NoId]

(* ----------------------- random draws (Math.random) -------------------- *)
\* a draw is 0 (low) or 1 (high); the draws of one tick all fall on the same side
Rand == {0, 1}
Draw(c) == c.rnd
\* ri counts the draws a tick has taken
Drawn(c) == [c EXCEPT !.ri = c.ri + 1]
\* Math.random() * 10 in the spawn position
SpawnJitter(r) == 5 * r
\* Math.random() * 40 - 20 when a dying bunker scatters its garrison
ScatterOffset(r) == IF r = 0 THEN 0 - 15 ELSE 15
\* (Math.random() - 0.5) * 200 and * 300 in the AI build positions
DepotOffset(r) == IF r = 0 THEN 0 - 60 ELSE 60
BarracksOffset(r) == IF r = 0 THEN 0 - 90 ELSE 90

(* ------------------- lookups over the entity arena --------------------- *)
\* first element of seq (in order) with the largest score; NoId when seq is empty
ArgMaxFirst(seq, F(_)) ==
  IF seq = <<>> THEN NoId
  ELSE LET m == CHOOSE v \in {F(seq[i]) : i \in 1..Len(seq)} : \A j \in 1..Len(seq) : F(seq[j]) <= v
           k == CHOOSE i \in 1..Len(seq) : F(seq[i]) = m /\ \A j \in 1..(i - 1) : F(seq[j]) # m
       IN seq[k]

\* entities.get(id) succeeds
Has(ord, id) == id # NoId /\ id \in Range(ord)

\* type = "" or owner = "" stands for an omitted argument
findNearest(pos, obj, ord, type, owner) ==
  LET cand == SelectSeq(ord, LAMBDA i : /\ obj[i].state # "GARRISONED"
                                        /\ (type # "" => obj[i].type = type)
                                        /\ (owner # "" => obj[i].owner = owner))
      Score(i) == 0 - getDistance(pos, obj[i].pos)
  IN ArgMaxFirst(cand, Score)

getWorkerCountForMineral(mineralId, obj, ord) ==
  Cardinality({i \in Range(ord) : /\ obj[i].type = WORKER
                                  /\ obj[i].state \in {"GATHERING", "RETURNING"}
                                  /\ obj[i].targetId = mineralId})

\* lines 241-262: the forEach callback of acquireTarget on the entity e, best so far b (b.t the
\* target, b.score its score; b.t = NoId stands for bestScore = -Infinity)
TargetScore(entity, id, e) ==
  (IF e.targetId = id THEN 5000 ELSE 0)
  + (IF ~isBuilding(e.type) THEN 1000 ELSE 100)
  - getDistance(entity.pos, e.pos)

\* the comparison of the scan with >= for >
BetterOrEqual(score, b) == b.t = NoId \/ score >= b.score

\* line 258: score > bestScore
Better(score, b) == b.t = NoId \/ score > b.score

\* the scan without the skip of garrisoned entities
RECURSIVE ScanTargetsGarrisoned(_, _, _, _, _)
ScanTargetsGarrisoned(id, obj, ord, i, b) ==
  IF i > Len(ord) THEN b.t
  ELSE LET e == obj[ord[i]]
           entity == obj[id]
       IN IF /\ e.owner # entity.owner /\ e.owner # NEUTRAL /\ e.hp > 0 /\ ~isTerrain(e.type)
             /\ getDistance(entity.pos, e.pos) < STATS[entity.type].range + 250
             /\ Better(TargetScore(entity, id, e), b)
          THEN ScanTargetsGarrisoned(id, obj, ord, i + 1, [t |-> ord[i], score |-> TargetScore(entity, id, e)])
          ELSE ScanTargetsGarrisoned(id, obj, ord, i + 1, b)

\* lines 241-262
RECURSIVE ScanTargets(_, _, _, _, _)
ScanTargets(id, obj, ord, i, b) ==
  IF i > Len(ord) THEN b.t
  ELSE LET e == obj[ord[i]]
           entity == obj[id]
       IN IF /\ e.state # "GARRISONED"
             /\ e.owner # entity.owner /\ e.owner # NEUTRAL /\ e.hp > 0 /\ ~isTerrain(e.type)
             /\ getDistance(entity.pos, e.pos) < STATS[entity.type].range + 250
             /\ Better(TargetScore(entity, id, e), b)
          THEN ScanTargets(id, obj, ord, i + 1, [t |-> ord[i], score |-> TargetScore(entity, id, e)])
          ELSE ScanTargets(id, obj, ord, i + 1, b)

\* lines 235-266
acquireTarget(id, obj, ord) == ScanTargets(id, obj, ord, 1, [t |-> NoId, score |-> 0])

\* one pairwise push of resolveCollisions: the new position of the entity at p
PushFrom(p, radius, other) ==
  LET dist == getDistance(p, other.pos)
      combinedRadius == radius + STATS[other.type].radius
      separationRadius == combinedRadius + 5
      \* force * staticMult, doubled to stay in whole numbers
      k == (IF dist < combinedRadius THEN 4 ELSE 1) * (IF STATS[other.type].speed = 0 THEN 2 ELSE 1)
      push == ((separationRadius - dist) * k) \div (2 * separationRadius)
  IN IF dist < separationRadius /\ dist > 0
     THEN (IF p > other.pos THEN p + push ELSE p - push)
     ELSE p

RECURSIVE PushAll(_, _, _, _, _)
PushAll(p, id, obj, ord, i) ==
  IF i > Len(ord) THEN p
  ELSE IF ord[i] = id \/ obj[ord[i]].state = "GARRISONED" THEN PushAll(p, id, obj, ord, i + 1)
  ELSE PushAll(PushFrom(p, STATS[obj[id].type].radius, obj[ord[i]]), id, obj, ord, i + 1)

\* the speed test left out
ImmobileNever(entity) == FALSE

\* line 210: if (STATS[entity.type].speed === 0) return
Immobile(entity) == STATS[entity.type].speed = 0

resolveCollisions(c, id) ==
  LET entity == c.obj[id] IN
  IF entity.state \in {"BUILDING", "GARRISONED"} \/ Immobile(entity) THEN c
  ELSE [c EXCEPT !.obj[id].pos = PushAll(entity.pos, id, c.obj, c.old, 1)]

(* ------------------ updateGame: one entity of the loop ----------------- *)
\* The context c of a tick: obj (the entity objects, shared by both maps),
\* old (iteration order of state.entities), new (order of newEntities),
\* res, sup, idc (idCounter), rnd/ri (random draws), time (state.gameTime),
\* fx (newEffects), snd (soundEvents), lost (pushes to state.notifications,
\* an array the returned state does not carry), ev (what happened, for the
\* properties), ret (the forEach callback returned early).
Event(k, a, b, n) == [k |-> k, a |-> a, b |-> b, n |-> n]
Log(c, k, a, b, n) == [c EXCEPT !.ev = Append(c.ev, Event(k, a, b, n))]

\* addNotification(state, text) called inside updateGame
addNotificationInTick(c, text) ==
  IF \E i \in 1..Len(c.stateNotes) : c.stateNotes[i].text = text /\ c.stateNotes[i].life > 60
  THEN c
  ELSE [c EXCEPT !.stateNotes = Append(c.stateNotes, [text |-> text, life |-> 120]),
                 !.lost = c.lost + 1]

\* lines 329-359: the first order of a spawned unit
RallyLogic(c, id, newUnit) ==
  LET entity == c.obj[id]
      unitType == newUnit.type
      hasT == Has(c.old, entity.rallyTargetId)
  IN
  IF entity.rallyPoint # NoPos THEN
    IF unitType = WORKER /\ entity.rallyTargetId # NoId THEN
      IF hasT /\ c.obj[entity.rallyTargetId].type = MINERAL
      THEN [newUnit EXCEPT !.state = "GATHERING", !.targetId = entity.rallyTargetId, !.targetPosition = NoPos]
      ELSE [newUnit EXCEPT !.state = "MOVING", !.targetPosition = entity.rallyPoint]
    ELSE
      LET u1 == [newUnit EXCEPT !.state = "MOVING", !.targetPosition = entity.rallyPoint]
          u2 == IF entity.rallyTargetId # NoId /\ hasT /\ c.obj[entity.rallyTargetId].owner # entity.owner
                THEN [u1 EXCEPT !.state = "ATTACKING", !.targetId = entity.rallyTargetId]
                ELSE u1
      IN IF entity.rallyTargetId = NoId /\ unitType \in {MARINE, MEDIC}
         THEN [u2 EXCEPT !.state = IF unitType = MEDIC THEN "MOVING" ELSE "ATTACKING"]
         ELSE u2
  ELSE IF entity.owner = AI /\ unitType \in {MARINE, MEDIC}
       THEN [newUnit EXCEPT !.targetPosition = GAME_HEIGHT \div 2, !.state = "ATTACKING"]
       ELSE newUnit

\* the supply gate with < for <=
HasHeadroomStrict(c, owner, unitType) ==
  c.sup[owner].used + STATS[unitType].supplyCost < c.sup[owner].max

\* line 320: the supply gate of a completed unit
HasHeadroom(c, owner, unitType) ==
  c.sup[owner].used + STATS[unitType].supplyCost <= c.sup[owner].max

\* lines 314-371
\* Array.prototype.pop in place of shift: the newest order leaves the queue
pop(trainQueue) == SubSeq(trainQueue, 1, Len(trainQueue) - 1)

\* entity.trainQueue.shift() (line 362)
shift(trainQueue) == Tail(trainQueue)

UnitProduction(c, id) ==
  LET entity == c.obj[id] IN
  IF Len(entity.trainQueue) = 0 THEN c
  ELSE
    LET unitType == Head(entity.trainQueue)
        tp == entity.trainProgress + 1
    IN
    IF tp < STATS[unitType].buildTime THEN [c EXCEPT !.obj[id].trainProgress = tp]
    ELSE IF HasHeadroom(c, entity.owner, unitType) THEN
      LET spawnDir == IF entity.owner = PLAYER THEN 0 - 1 ELSE 1
          nid == c.idc + 1
          unit0 == createEntity(unitType, entity.owner, entity.pos + 80 * spawnDir + SpawnJitter(Draw(c)))
          unit == RallyLogic(c, id, unit0)
          c1 == Drawn(c)
      IN Log([c1 EXCEPT !.obj = (nid :> unit) @@ [c.obj EXCEPT ![id].trainQueue = shift(entity.trainQueue),
                                                               ![id].trainProgress = 0],
                        !.new = Append(c.new, nid),
                        !.idc = nid],
             "spawn", id, nid, 0)
    ELSE
      LET c1 == Log([c EXCEPT !.obj[id].trainProgress = STATS[unitType].buildTime - 1], "capped", id, NoId, 0)
      IN IF entity.owner = PLAYER /\ c.time % 60 = 0
         THEN addNotificationInTick(c1, "Supply Capped!")
         ELSE c1

\* lines 375-406
BunkerLogic(c, id) ==
  LET entity == c.obj[id]
      stats == STATS[entity.type]
  IN
  IF entity.type # BUNKER \/ Len(entity.garrison) = 0 THEN c
  ELSE
    LET keep == /\ Has(c.old, entity.targetId)
                /\ c.obj[entity.targetId].hp > 0
                /\ getDistance(entity.pos, c.obj[entity.targetId].pos) <= stats.range
        tid == IF keep THEN entity.targetId ELSE acquireTarget(id, c.obj, c.old)
        c0 == [c EXCEPT !.obj[id].targetId = tid]
        c1 == IF ~keep /\ tid # NoId THEN Log(c0, "acquire", id, tid, 0) ELSE c0
    IN
    IF tid # NoId /\ getDistance(entity.pos, c.obj[tid].pos) <= stats.range /\ entity.cooldown <= 0
    THEN LET hp2 == c.obj[tid].hp - STATS[MARINE].damage
             c2 == [c1 EXCEPT !.obj[tid].hp = hp2,
                              !.obj[id].cooldown = Max(5, CeilDiv(30, Len(entity.garrison))),
                              !.obj[id].targetId = IF hp2 <= 0 THEN NoId ELSE tid]
         IN Log(c2, "bunkerfire", id, tid, STATS[MARINE].damage)
    ELSE c1

\* lines 408-461
MedicSeek(c, id) ==
  LET entity == c.obj[id]
      stats == STATS[entity.type]
      cand == SelectSeq(c.old, LAMBDA i : /\ c.obj[i].owner = entity.owner
                                          /\ isBio(c.obj[i].type)
                                          /\ c.obj[i].hp < c.obj[i].maxHp
                                          /\ c.obj[i].state # "GARRISONED"
                                          /\ getDistance(entity.pos, c.obj[i].pos) < stats.vision)
      Score(i) == 0 - getDistance(entity.pos, c.obj[i].pos)
      healTarget == ArgMaxFirst(cand, Score)
  IN
  IF entity.state \notin {"IDLE", "MOVING", "ATTACKING"} \/ healTarget = NoId THEN c
  ELSE IF getDistance(entity.pos, c.obj[healTarget].pos) <= stats.range
       THEN [c EXCEPT !.obj[id].state = "HEALING", !.obj[id].targetId = healTarget,
                      !.obj[id].targetPosition = NoPos]
       ELSE [c EXCEPT !.obj[id].pos = StepToward(entity.pos, c.obj[healTarget].pos, stats.speed)]

MedicHeal(c, id) ==
  LET entity == c.obj[id]
      stats == STATS[entity.type]
      tid == entity.targetId
  IN
  IF entity.state # "HEALING" THEN c
  ELSE IF \/ ~Has(c.old, tid)
          \/ c.obj[tid].hp >= c.obj[tid].maxHp
          \/ getDistance(entity.pos, c.obj[tid].pos) > stats.range + 20
       THEN [c EXCEPT !.obj[id].state = "IDLE", !.obj[id].targetId = NoId]
       ELSE IF entity.cooldown <= 0
            THEN LET rate == IF stats.healRate # 0 THEN stats.healRate ELSE 5
                     c1 == [c EXCEPT !.obj[tid].hp = Min(c.obj[tid].maxHp, c.obj[tid].hp + rate),
                                     !.obj[id].cooldown = stats.attackSpeed,
                                     !.fx = Append(c.fx, [type |-> "HEAL", life |-> 20])]
                 IN Log(c1, "heal", id, tid, rate)
            ELSE c

MedicLogic(c, id) ==
  IF c.obj[id].type # MEDIC THEN c ELSE MedicHeal(MedicSeek(c, id), id)

\* the capacity test with <= for <
HasRoomInclusive(garrison) == Len(garrison) <= 4

\* line 470: the bunker takes one more
HasRoom(garrison) == Len(garrison) < 4

\* the else branch leaving the entrant as it is
KeepEntering(entity) == entity

\* lines 487-489: no such bunker, the entrant gives up
GiveUpEntering(entity) == [entity EXCEPT !.state = "IDLE"]

\* lines 463-489
EnteringLogic(c, id) ==
  LET entity == c.obj[id]
      stats == STATS[entity.type]
      bid == entity.targetId
  IN
  IF ~(entity.state = "ENTERING" /\ bid # NoId) THEN c
  ELSE IF Has(c.old, bid) /\ c.obj[bid].type = BUNKER /\ c.obj[bid].hp > 0 /\ c.obj[bid].owner = entity.owner
       THEN LET bunker == c.obj[bid] IN
            IF getDistance(entity.pos, bunker.pos) < STATS[bunker.type].radius + stats.radius + 10
            THEN IF HasRoom(bunker.garrison)
                 THEN Log([c EXCEPT !.obj[bid].garrison = Append(bunker.garrison, id),
                                    !.obj[id].state = "GARRISONED",
                                    !.obj[id].containerId = bid,
                                    !.obj[id].targetId = NoId,
                                    !.obj[id].targetPosition = NoPos,
                                    !.snd = Append(c.snd, "click")],
                          "enter", id, bid, 0)
                 ELSE Log([c EXCEPT !.obj[id].state = "IDLE"], "full", id, bid, 0)
            ELSE [c EXCEPT !.obj[id].pos = StepToward(entity.pos, bunker.pos, stats.speed)]
       ELSE [c EXCEPT !.obj[id] = GiveUpEntering(entity)]

\* lines 494-501
AutoTarget(c, id) ==
  LET entity == c.obj[id] IN
  IF entity.state = "IDLE" /\ entity.type \notin {MEDIC, WORKER} /\ STATS[entity.type].damage > 0
  THEN LET t == acquireTarget(id, c.obj, c.old) IN
       IF t # NoId
       THEN Log([c EXCEPT !.obj[id].targetId = t, !.obj[id].state = "ATTACKING"], "acquire", id, t, 0)
       ELSE c
  ELSE c

\* lines 503-513; also the walk of an attack-move without a target (540-548)
WalkToTargetPosition(c, id) ==
  LET entity == c.obj[id] IN
  IF getDistance(entity.pos, entity.targetPosition) < 10
  THEN [c EXCEPT !.obj[id].state = "IDLE", !.obj[id].targetPosition = NoPos]
  ELSE [c EXCEPT !.obj[id].pos = StepToward(entity.pos, entity.targetPosition, STATS[entity.type].speed)]

MovingLogic(c, id) ==
  IF c.obj[id].state = "MOVING" /\ c.obj[id].targetPosition # NoPos THEN WalkToTargetPosition(c, id) ELSE c

\* lines 518-528: the target after the retaliation override (r.c the context, r.t the target)
Retaliation(c, id) ==
  LET entity == c.obj[id]
      t0 == IF Has(c.old, entity.targetId) THEN entity.targetId ELSE NoId
      aid == entity.lastAttackerId
  IN
  IF aid = NoId THEN [c |-> c, t |-> t0]
  ELSE
    LET valid == /\ Has(c.old, aid)
                 /\ c.obj[aid].hp > 0
                 /\ c.obj[aid].owner # entity.owner
                 /\ c.obj[aid].state # "GARRISONED"
        switch == valid /\ (t0 = NoId \/ isBuilding(c.obj[t0].type) \/ c.obj[t0].owner = NEUTRAL)
        c1 == IF switch THEN [c EXCEPT !.obj[id].targetId = aid, !.obj[id].targetPosition = NoPos] ELSE c
        c2 == IF c.time % 20 = 0 THEN [c1 EXCEPT !.obj[id].lastAttackerId = NoId] ELSE c1
    IN [c |-> c2, t |-> IF switch THEN aid ELSE t0]

\* lines 530-556: the target is gone, dead or garrisoned
TargetLost(c, id) ==
  LET c1 == [c EXCEPT !.obj[id].targetId = NoId]
      entity == c1.obj[id]
  IN
  IF entity.targetPosition # NoPos THEN
    IF STATS[entity.type].damage > 0 THEN
      LET newTarget == acquireTarget(id, c1.obj, c1.old) IN
      IF newTarget # NoId THEN Log([c1 EXCEPT !.obj[id].targetId = newTarget], "acquire", id, newTarget, 0)
      ELSE WalkToTargetPosition(c1, id)
    ELSE [c1 EXCEPT !.obj[id].state = "MOVING"]
  ELSE [c1 EXCEPT !.obj[id].state = "IDLE"]

\* lines 562-572: the hit itself
ApplyDamage(hp, damage) == hp - damage

\* the cooldown gate one tick early
ReadyToHitEarly(entity) == entity.cooldown <= 1

\* line 563: the cooldown gate of a hit
ReadyToHit(entity) == entity.cooldown <= 0

\* lines 558-578
AttackTarget(c, id, tid) ==
  LET entity == c.obj[id]
      stats == STATS[entity.type]
      target == c.obj[tid]
  IN
  IF getDistance(entity.pos, target.pos) <= stats.range + STATS[target.type].radius THEN
    IF ReadyToHit(entity) THEN
      LET flip == target.state = "IDLE" /\ STATS[target.type].damage > 0 /\ target.owner # NEUTRAL
          c1 == [c EXCEPT !.obj[tid].hp = ApplyDamage(target.hp, stats.damage),
                          !.obj[tid].lastAttackerId = id,
                          !.obj[id].cooldown = stats.attackSpeed]
          c2 == IF flip THEN [c1 EXCEPT !.obj[tid].targetId = id, !.obj[tid].state = "ATTACKING"] ELSE c1
      IN Log(c2, "hit", id, tid, stats.damage)
    ELSE Log(c, "wait", id, tid, 0)
  ELSE [c EXCEPT !.obj[id].pos = StepToward(entity.pos, target.pos, stats.speed)]

\* lines 515-579
AttackingLogic(c, id) ==
  IF c.obj[id].state # "ATTACKING" THEN c
  ELSE
    LET r == Retaliation(c, id)
        lost == r.t = NoId \/ r.c.obj[r.t].hp <= 0 \/ r.c.obj[r.t].state = "GARRISONED"
    IN IF lost THEN TargetLost(r.c, id) ELSE AttackTarget(r.c, id, r.t)

\* the depletion test with < for <=
DepletedBelowZero(left) == left < 0

\* line 624: the harvested node is used up
Depleted(left) == left <= 0

\* lines 582-638; c.ret is set where the callback returns early (line 613)
GatheringLogic(c, id) ==
  LET entity == c.obj[id]
      stats == STATS[entity.type]
      tid == entity.targetId
  IN
  IF entity.state # "GATHERING" THEN c
  ELSE IF ~Has(c.old, tid) \/ c.obj[tid].resourceAmount <= 0 THEN
    LET cand == SelectSeq(c.old, LAMBDA i : /\ c.obj[i].type = MINERAL
                                            /\ c.obj[i].resourceAmount > 0
                                            /\ getWorkerCountForMineral(i, c.obj, c.old) < 3)
        Score(i) == 0 - getDistance(entity.pos, c.obj[i].pos)
        newRes == ArgMaxFirst(cand, Score)
    IN IF newRes # NoId THEN [c EXCEPT !.obj[id].targetId = newRes]
       ELSE [c EXCEPT !.obj[id].state = "IDLE"]
  ELSE
    LET target == c.obj[tid]
        better == findNearest(entity.pos, c.obj, c.old, MINERAL, NEUTRAL)
    IN
    IF /\ c.time % 60 = 0
       /\ getWorkerCountForMineral(tid, c.obj, c.old) > 3
       /\ better # NoId /\ better # tid
       /\ getWorkerCountForMineral(better, c.obj, c.old) < 3
    THEN [c EXCEPT !.obj[id].targetId = better, !.ret = TRUE]
    ELSE IF getDistance(entity.pos, target.pos) <= stats.radius + STATS[target.type].radius + 15 THEN
      IF entity.cooldown + 1 >= GATHER_TIME THEN
        LET left == target.resourceAmount - RESOURCE_GATHER_AMOUNT
            base == findNearest(entity.pos, c.obj, c.old, BASE, entity.owner)
            c1 == [c EXCEPT !.obj[id].resourceAmount = entity.resourceAmount + RESOURCE_GATHER_AMOUNT,
                            !.obj[tid].resourceAmount = left,
                            !.new = IF Depleted(left) THEN Remove(c.new, tid) ELSE c.new,
                            !.obj[id].state = "RETURNING",
                            !.obj[id].cooldown = 0,
                            !.obj[id].targetId = IF base # NoId THEN base ELSE tid]
        IN Log(c1, "harvest", id, tid, RESOURCE_GATHER_AMOUNT)
      ELSE [c EXCEPT !.obj[id].cooldown = entity.cooldown + 1]
    ELSE [c EXCEPT !.obj[id].pos = StepToward(entity.pos, target.pos, stats.speed)]

\* lines 640-662
ReturningLogic(c, id) ==
  LET entity == c.obj[id]
      stats == STATS[entity.type]
      bid == entity.targetId
  IN
  IF entity.state # "RETURNING" THEN c
  ELSE IF ~Has(c.old, bid) \/ c.obj[bid].hp <= 0 THEN
    LET newBase == findNearest(entity.pos, c.obj, c.old, BASE, entity.owner) IN
    IF newBase # NoId THEN [c EXCEPT !.obj[id].targetId = newBase]
    ELSE [c EXCEPT !.obj[id].state = "IDLE"]
  ELSE
    LET base == c.obj[bid] IN
    IF getDistance(entity.pos, base.pos) <= STATS[base.type].radius + stats.radius + 15 THEN
      LET mineral == findNearest(entity.pos, c.obj, c.old, MINERAL, NEUTRAL)
          c1 == [c EXCEPT !.res[entity.owner] = c.res[entity.owner] + entity.resourceAmount,
                          !.obj[id].resourceAmount = 0,
                          !.obj[id].state = "GATHERING",
                          !.obj[id].targetId = mineral]
      IN Log(c1, "deposit", id, bid, entity.resourceAmount)
    ELSE [c EXCEPT !.obj[id].pos = StepToward(entity.pos, base.pos, stats.speed)]

\* line 664
CooldownTick(c, id) ==
  IF c.obj[id].cooldown > 0 /\ c.obj[id].state # "GATHERING"
  THEN [c EXCEPT !.obj[id].cooldown = c.obj[id].cooldown - 1]
  ELSE c

\* lines 688-702: garrison[i..] of a dying bunker is put back on the field
RECURSIVE EjectGarrison(_, _, _, _)
EjectGarrison(c, pos, g, i) ==
  IF i > Len(g) THEN c
  ELSE IF g[i] \in Range(c.new)
       THEN EjectGarrison(Drawn([c EXCEPT !.obj[g[i]].state = "IDLE",
                                          !.obj[g[i]].containerId = NoId,
                                          !.obj[g[i]].pos = pos + ScatterOffset(Draw(c))]),
                          pos, g, i + 1)
       ELSE EjectGarrison(c, pos, g, i + 1)

\* lines 666-705
DeathCheck(c, id) ==
  LET entity == c.obj[id] IN
  IF entity.hp > 0 THEN c
  ELSE
    LET effectType == IF isBio(entity.type) THEN "BLOOD"
                      ELSE IF isBuilding(entity.type) THEN "BUILDING_EXPLOSION" ELSE "EXPLOSION"
        c1 == [c EXCEPT !.fx = Append(c.fx, [type |-> effectType,
                                             life |-> IF effectType = "BUILDING_EXPLOSION" THEN 60 ELSE 30]),
                        !.snd = Append(c.snd, "explosion")]
        c2 == EjectGarrison(c1, entity.pos, entity.garrison, 1)
    IN Log([c2 EXCEPT !.new = Remove(c2.new, id)], "death", id, NoId, 0)

\* lines 307-312
BuildingConstruction(c, id) ==
  LET p == c.obj[id].constructionProgress + (100 \div STATS[c.obj[id].type].buildTime)
  IN [c EXCEPT !.obj[id].constructionProgress = IF p >= 100 THEN 100 ELSE p]

\* lines 640-707: what follows the GATHERING block, skipped by its early return (line 613)
AfterGathering(c, id) ==
  IF c.ret THEN [c EXCEPT !.ret = FALSE]
  ELSE resolveCollisions(DeathCheck(CooldownTick(ReturningLogic(c, id), id), id), id)

\* the construction test taken for a structure that has not been started
UnderConstructionUnstarted(entity) == entity.constructionProgress < 0

\* line 308: the structure is not finished
UnderConstruction(entity) == entity.constructionProgress < 100

\* lines 303-708: the callback of entities.forEach
UpdateEntity(c, id) ==
  LET entity == c.obj[id] IN
  IF isTerrain(entity.type) \/ entity.state = "GARRISONED" THEN c
  ELSE IF UnderConstruction(entity) THEN BuildingConstruction(c, id)
  ELSE
    AfterGathering(
      GatheringLogic(
        AttackingLogic(
          MovingLogic(
            AutoTarget(
              EnteringLogic(
                MedicLogic(
                  BunkerLogic(
                    UnitProduction(c, id), id), id), id), id), id), id), id), id)

RECURSIVE EntityLoop(_, _)
EntityLoop(c, i) ==
  IF i > Len(c.old) THEN c ELSE EntityLoop(UpdateEntity(c, c.old[i]), i + 1)

(* ------------------------------- runAI --------------------------------- *)
\* the worker target one higher
MaxWorkersAndOne(d) == IF d = EASY THEN 9 ELSE IF d = HARD THEN 17 ELSE 13

\* lines 775-784
MaxWorkers(d) == IF d = EASY THEN 8 ELSE IF d = HARD THEN 16 ELSE 12
AttackThreshold(d) == IF d = EASY THEN 15 ELSE IF d = HARD THEN 8 ELSE 10
BarracksQuota(d) == IF d = HARD THEN 5 ELSE 3

OfAI(c, types) == SelectSeq(c.new, LAMBDA i : c.obj[i].owner = AI /\ c.obj[i].type \in types)

\* lines 786-794
AITrainWorkers(c, d, myMinerals, workers, bases) ==
  LET free == SelectSeq(bases, LAMBDA b : Len(c.obj[b].trainQueue) < 1) IN
  IF /\ Len(workers) < MaxWorkers(d) /\ Len(bases) > 0 /\ myMinerals >= 50
     /\ c.sup[AI].used < c.sup[AI].max /\ free # <<>>
  THEN [c EXCEPT !.obj[free[1]].trainQueue = Append(c.obj[free[1]].trainQueue, WORKER),
                 !.res[AI] = c.res[AI] - 50]
  ELSE c

\* lines 796-805
RECURSIVE AIManageWorkers(_, _, _)
AIManageWorkers(c, workers, i) ==
  IF i > Len(workers) THEN c
  ELSE LET w == workers[i]
           m == findNearest(c.obj[w].pos, c.obj, c.new, MINERAL, NEUTRAL)
       IN AIManageWorkers(IF c.obj[w].state = "IDLE" /\ m # NoId
                          THEN [c EXCEPT !.obj[w].targetId = m, !.obj[w].state = "GATHERING"]
                          ELSE c,
                          workers, i + 1)

\* lines 807-833: a structure bought by the AI and placed near its base
AIBuild(c, type, price, offset, workers, bases) ==
  LET builders == SelectSeq(workers, LAMBDA w : c.obj[w].state \in {"GATHERING", "IDLE"}) IN
  IF builders = <<>> THEN c
  ELSE LET basePos == IF bases # <<>> THEN c.obj[bases[1]].pos ELSE c.obj[builders[1]].pos
           nid == c.idc + 1
           b == [createEntity(type, AI, basePos + offset) EXCEPT !.constructionProgress = 0]
       IN [Drawn(c) EXCEPT !.res[AI] = c.res[AI] - price,
                           !.obj = (nid :> b) @@ c.obj,
                           !.new = Append(c.new, nid),
                           !.idc = nid]

AIBuildSupply(c, myMinerals, workers, bases) ==
  IF c.sup[AI].max - c.sup[AI].used <= 2 /\ myMinerals >= 100
  THEN AIBuild(c, SUPPLY_DEPOT, 100, DepotOffset(Draw(c)), workers, bases)
  ELSE c

AIBuildBarracks(c, d, myMinerals, workers, bases, barracks) ==
  IF Len(barracks) < BarracksQuota(d) /\ myMinerals >= 150
  THEN AIBuild(c, BARRACKS, 150, BarracksOffset(Draw(c)), workers, bases)
  ELSE c

\* lines 835-849
RECURSIVE AITrainArmy(_, _, _)
AITrainArmy(c, barracks, i) ==
  IF i > Len(barracks) THEN c
  ELSE LET b == c.obj[barracks[i]] IN
       IF Len(b.trainQueue) < 5 /\ c.res[AI] >= 50 /\ b.constructionProgress >= 100
       THEN LET type == IF Draw(c) = 0 /\ c.res[AI] >= 75 THEN MEDIC ELSE MARINE
                cost == STATS[type].cost
                c1 == Drawn(c)
            IN AITrainArmy(IF c.res[AI] >= cost
                           THEN [c1 EXCEPT !.obj[barracks[i]].trainQueue = Append(b.trainQueue, type),
                                           !.res[AI] = c.res[AI] - cost]
                           ELSE c1,
                           barracks, i + 1)
       ELSE AITrainArmy(c, barracks, i + 1)

\* lines 851-875 (a medic's targetPosition is the marine's position at that moment)
RECURSIVE AIAttack(_, _, _, _)
AIAttack(c, army, targetPos, i) ==
  IF i > Len(army) THEN c
  ELSE LET u == army[i]
           marines == SelectSeq(army, LAMBDA a : c.obj[a].type = MARINE)
           c1 == IF c.obj[u].state \in {"ATTACKING", "HEALING"} THEN c
                 ELSE IF c.obj[u].type = MEDIC
                      THEN (IF c.obj[u].state = "IDLE" /\ marines # <<>>
                            THEN [c EXCEPT !.obj[u].state = "MOVING",
                                           !.obj[u].targetPosition = c.obj[marines[1]].pos]
                            ELSE c)
                      ELSE [c EXCEPT !.obj[u].state = "ATTACKING", !.obj[u].targetPosition = targetPos]
       IN AIAttack(c1, army, targetPos, i + 1)

\* lines 765-876
runAI(c, d) ==
  LET workers == OfAI(c, {WORKER})
      bases == OfAI(c, {BASE})
      barracks == OfAI(c, {BARRACKS})
      army == OfAI(c, {MARINE, MEDIC})
      myMinerals == c.res[AI]
      c1 == AITrainWorkers(c, d, myMinerals, workers, bases)
      c2 == AIManageWorkers(c1, workers, 1)
      c3 == AIBuildSupply(c2, myMinerals, workers, bases)
      c4 == AIBuildBarracks(c3, d, myMinerals, workers, bases, barracks)
      c5 == IF Len(barracks) > 0 /\ myMinerals >= 50 /\ c.sup[AI].used < c.sup[AI].max
            THEN AITrainArmy(c4, barracks, 1) ELSE c4
      enemyBase == SelectSeq(c5.new, LAMBDA i : c5.obj[i].owner = PLAYER /\ c5.obj[i].type = BASE)
      anyEnemy == SelectSeq(c5.new, LAMBDA i : c5.obj[i].owner = PLAYER)
      targetPos == IF enemyBase # <<>> THEN c5.obj[enemyBase[1]].pos
                   ELSE IF anyEnemy # <<>> THEN c5.obj[anyEnemy[1]].pos ELSE 1800
  IN IF Len(army) > AttackThreshold(d) THEN AIAttack(c5, army, targetPos, 1) ELSE c5

(* ----------------------------- updateGame ------------------------------ *)
\* lines 286-300
SupplyOf(obj, ids, o) ==
  LET mine == {i \in ids : obj[i].owner = o}
      provided == [i \in mine |-> IF obj[i].constructionProgress >= 100 THEN STATS[obj[i].type].supplyProvided ELSE 0]
      costs == [i \in mine |-> STATS[obj[i].type].supplyCost]
  IN [used |-> SumOver(costs, mine), max |-> Min(SumOver(provided, mine), 200)]

RecalculateSupply(obj, ord) == [o \in {PLAYER, AI} |-> SupplyOf(obj, Range(ord), o)]

\* lines 716-732: life-- on every overlay, those at 0 are dropped
Decay(seq) ==
  SelectSeq([i \in 1..Len(seq) |-> [seq[i] EXCEPT !.life = seq[i].life - 1]], LAMBDA x : x.life > 0)

BuildingCount(obj, ord, o) == Cardinality({i \in Range(ord) : obj[i].owner = o /\ isBuilding(obj[i].type)})

\* the two verdicts assigned in the other order
CheckVictoryAILast(obj, ord) ==
  LET v1 == IF BuildingCount(obj, ord, AI) = 0 /\ Len(ord) > 0 THEN PLAYER ELSE NoVictory
  IN IF BuildingCount(obj, ord, PLAYER) = 0 /\ Len(ord) > 0 THEN AI ELSE v1

\* lines 739-749
CheckVictory(obj, ord) ==
  LET v1 == IF BuildingCount(obj, ord, PLAYER) = 0 /\ Len(ord) > 0 THEN AI ELSE NoVictory
  IN IF BuildingCount(obj, ord, AI) = 0 /\ Len(ord) > 0 THEN PLAYER ELSE v1

\* lines 278-763: the tick on a state st with the random draws rnd; the result carries
\* the fields of the returned GameState and the module-level idCounter
\* lines 278-300: the copies and counters a tick starts from
StartOfTick(st, rnd) ==
  [obj |-> st.entities, old |-> st.order, new |-> st.order,
   res |-> st.resources, sup |-> RecalculateSupply(st.entities, st.order),
   idc |-> st.idCounter, rnd |-> rnd, ri |-> 0, time |-> st.gameTime,
   fx |-> st.effects, snd |-> <<>>, stateNotes |-> st.notifications, lost |-> 0,
   ev |-> <<>>, ret |-> FALSE]

\* lines 733-736
AIStep(c, st) == IF st.gameTime % 30 = 0 THEN runAI(c, st.difficulty) ELSE c

\* lines 716-732, 738-762
EndOfTick(c, st) ==
  [entities |-> [i \in Range(c.new) |-> c.obj[i]],
   order |-> c.new,
   resources |-> c.res,
   supply |-> c.sup,
   effects |-> Decay(c.fx),
   notifications |-> Decay(st.notifications),
   soundEvents |-> c.snd,
   gameTime |-> st.gameTime + 1,
   victory |-> CheckVictory(c.obj, c.new),
   idCounter |-> c.idc,
   difficulty |-> st.difficulty,
   paused |-> st.paused,
   ev |-> c.ev]

\* lines 278-763
updateGame(st, rnd) == EndOfTick(AIStep(EntityLoop(StartOfTick(st, rnd), 1), st), st)

(* ------------------------------- state --------------------------------- *)
VARIABLES
  entities,       \* GameState.entities: id -> entity
  order,          \* iteration (insertion) order of the entities Map
  resources,      \* GameState.resources
  supply,         \* GameState.supply
  effects,        \* GameState.effects
  notifications,  \* GameState.notifications
  gameTime,       \* GameState.gameTime
  victory,        \* GameState.victory
  paused,         \* GameState.paused
  difficulty,     \* GameState.difficulty
  idCounter,      \* the module-level idCounter of gameLogic.ts
  events,         \* history: what the last tick did
  lastHit,        \* history: attacker id -> gameTime of its last hit (-1: none yet)
  engaged,        \* history: attacker id -> it had a live target in range in every tick since its last hit
  gap,            \* history: attacker id -> ticks between its last two hits (-1: fewer than two)
  wasCapped,      \* history: producer id -> the tick before the last one left it supply-capped
  taken,          \* history: mineral id -> amount credited to workers from it
  stock0,         \* history: mineral id -> stock in the initial state
  twin,           \* the GameState of a second engine instance fed the same commands
  lobby,          \* peer -> the state of its Lobby component
  service,        \* peer -> its NetworkService
  links,          \* <<caller, callee>> -> the PeerJS data connection between the two
  shortId,        \* the call frame of NetworkService.generateShortId
  joining,        \* peer -> the promise of its last joinGame call, the connection it dialled, its timer
  match,          \* side -> stateRef.current of its multiplayer GameCanvas, and its idCounter
  wire,           \* side -> the GAME_COMMAND messages on their way to it
  noRushFrames,   \* the no-rush length the match was started with, in frames
  hosting         \* the frame of the last NetworkService.hostGame call and its promise

engineVars == <<entities, order, resources, supply, effects, notifications, gameTime, victory, paused,
                difficulty, idCounter>>
historyVars == <<events, lastHit, engaged, gap, wasCapped, taken, stock0>>
vars == <<entities, order, resources, supply, effects, notifications, gameTime, victory, paused,
          difficulty, idCounter, events, lastHit, engaged, gap, wasCapped, taken, stock0, twin,
          lobby, service, links, shortId, joining,
          match, wire, noRushFrames, hosting>>
\* what neither the engine nor the lobby touches
sideVars == <<shortId, joining, match, wire>>
\* what is chosen before the match and stays
configVars == <<noRushFrames, hosting>>
matchVars == <<entities, order, resources, supply, effects, notifications, gameTime, victory, paused,
               difficulty, idCounter, events, lastHit, engaged, gap, wasCapped, taken, stock0, twin,
               configVars>>
gameVars == <<matchVars, sideVars>>
netVars == <<lobby, service, links, sideVars, configVars>>

GameState == [entities |-> entities, order |-> order, resources |-> resources, supply |-> supply,
              effects |-> effects, notifications |-> notifications, gameTime |-> gameTime,
              victory |-> victory, paused |-> paused, difficulty |-> difficulty,
              idCounter |-> idCounter]

\* gameStateRef.current = st
SetGameState(st) ==
  /\ entities' = st.entities
  /\ order' = st.order
  /\ resources' = st.resources
  /\ supply' = st.supply
  /\ effects' = st.effects
  /\ notifications' = st.notifications
  /\ gameTime' = st.gameTime
  /\ victory' = st.victory
  /\ paused' = st.paused
  /\ difficulty' = st.difficulty
  /\ idCounter' = st.idCounter

(* ------------------------- peers and connections ----------------------- *)
Peers == {"A", "B", "X"}
NoPeer == "nobody"
\* the connections peers dial: B and X may join A, X may join B
Links == {<<"B", "A">>, <<"X", "A">>, <<"X", "B">>}
NoLink == <<>>
Caller(l) == l[1]
Callee(l) == l[2]
OtherEnd(l, p) == IF p = l[1] THEN l[2] ELSE l[1]
\* values of Math.random() * 10000
Seeds == {1, 2}
\* NO_RUSH_OPTIONS
NoRushOptions == {0, 120}
NoGame == [seed |-> 0 - 1, isHost |-> FALSE, noRushSeconds |-> 0 - 1, from |-> NoPeer]

\* Lobby state after mount (part_002 83-95), NetworkService after construction (network.ts 7-11)
NetInit ==
  /\ lobby = [p \in Peers |-> [mode |-> "MENU", opponent |-> NoPeer, isReady |-> FALSE,
                               opponentReady |-> FALSE, seed |-> 0, isHost |-> FALSE,
                               selectedNoRush |-> 0, game |-> NoGame]]
  /\ service = [p \in Peers |-> [peer |-> FALSE, conn |-> NoLink, data |-> {}, reject |-> {}]]
  /\ links = [l \in Links |-> [status |-> "none", inbox |-> [p \in {l[1], l[2]} |-> <<>>]]]

(* ------------------- generateShortId (network.ts 21-30) ----------------- *)
\* line 24: the characters of a room code
chars == <<"A", "B", "C", "D", "E", "F", "G", "H", "J", "K", "L", "M", "N", "P", "R", "S", "T", "U", "V",
           "W", "X", "Y", "Z", "2", "3", "4", "5", "6", "7", "8", "9">>

\* values of Math.random(), in thousandths
Randoms == {0, 1, 250, 500, 750, 967, 968, 999}

\* line 27: chars.charAt(Math.floor(Math.random() * chars.length))
charAt(r) == chars[(r * Len(chars)) \div 1000 + 1]

\* the loop test with <= for <
MoreCharsInclusive(i) == i <= 4

\* line 26: i < 4
MoreChars(i) == i < 4

NoCall == [pc |-> "idle", result |-> <<>>, i |-> 0]

\* no id asked for: hostGame()
NoCode == ""
\* no hostGame call yet
NoHost == [called |-> FALSE, customId |-> NoCode, attempts |-> 0, peerId |-> NoCode,
           awaiting |-> FALSE, last |-> "", id |-> NoCode, promise |-> "none", value |-> ""]

\* no joinGame call yet
NoJoin == [promise |-> "none", link |-> NoLink, timer |-> FALSE, error |-> "", caught |-> FALSE]

\* the two browsers of a match
Sides == {"host", "guest"}
Other(s) == IF s = "host" THEN "guest" ELSE "host"

\* Owner.OPPONENT (part_003 line 4)
OPPONENT == "OPPONENT"

\* initGame(difficulty, isMultiplayer, gameSeed, isHost, noRushSeconds) of the multiplayer engine
\* (not in src/): both peers lay out the same arena from the seed they are given, each sees its
\* own base and worker as PLAYER and the other's as OPPONENT
initGameMP(s, seed) ==
  [entities |-> (1 :> createEntity(BASE, IF s = "host" THEN PLAYER ELSE OPPONENT, 200))
             @@ (2 :> createEntity(BASE, IF s = "host" THEN OPPONENT ELSE PLAYER, 1000))
             @@ (3 :> createEntity(WORKER, IF s = "host" THEN PLAYER ELSE OPPONENT, 225))
             @@ (4 :> createEntity(WORKER, IF s = "host" THEN OPPONENT ELSE PLAYER, 975)),
   resources |-> [PLAYER |-> 300, OPPONENT |-> 300],
   idCounter |-> 4,
   seed |-> seed]

\* the seed START_GAME carried to both peers
GameSeed == CHOOSE seed \in Seeds : TRUE

\* the world of side s at match start (GameCanvas.tsx 331-347)
MatchStart(s) == initGameMP(s, GameSeed)

SideInit ==
  /\ shortId = NoCall
  /\ joining = [p \in Peers |-> NoJoin]
  /\ match = [s \in Sides |-> MatchStart(s)]
  /\ wire = [s \in Sides |-> <<>>]

(* --------------------------- initial arenas ---------------------------- *)
\* Arenas the match can be in after some play; ids are 1..n in creation order.
Ent(t, o, p) == createEntity(t, o, p)

\* a base with two workers queued, a worker at a nearly exhausted node, the AI likewise
ArenaEconomy(stock) ==
  <<[Ent(BASE, PLAYER, 200) EXCEPT !.trainQueue = <<WORKER, WORKER>>],
    [Ent(WORKER, PLAYER, 225) EXCEPT !.state = "GATHERING", !.targetId = 3],
    [Ent(MINERAL, NEUTRAL, 240) EXCEPT !.resourceAmount = stock],
    [Ent(BASE, AI, 1000) EXCEPT !.trainQueue = <<WORKER, WORKER>>],
    [Ent(WORKER, AI, 975) EXCEPT !.state = "GATHERING", !.targetId = 6],
    [Ent(MINERAL, NEUTRAL, 960) EXCEPT !.resourceAmount = 26]>>

\* two marines in range of each other next to their bases; a damaged AI barracks under construction
ArenaDuel(first) ==
  LET pm == [Ent(MARINE, PLAYER, 300) EXCEPT !.state = "ATTACKING", !.targetId = IF first = PLAYER THEN 2 ELSE 1]
      am == Ent(MARINE, AI, 350)
      rest == <<[Ent(BARRACKS, AI, 420) EXCEPT !.constructionProgress = 0, !.hp = 2],
                Ent(BASE, PLAYER, 100),
                Ent(BASE, AI, 600)>>
  IN (IF first = PLAYER THEN <<pm, am>> ELSE <<am, pm>>) \o rest

\* a marine sieging the last enemy building while its own last building is sieged
ArenaSiege(hpP, hpA) ==
  <<[Ent(BASE, PLAYER, 100) EXCEPT !.hp = hpP],
    [Ent(BASE, AI, 700) EXCEPT !.hp = hpA],
    [Ent(MARINE, PLAYER, 630) EXCEPT !.state = "ATTACKING", !.targetId = 2],
    [Ent(MARINE, AI, 170) EXCEPT !.state = "ATTACKING", !.targetId = 1]>>

\* a manned bunker and a medic with a wounded marine facing an AI marine
ArenaBunker ==
  <<[Ent(BUNKER, PLAYER, 300) EXCEPT !.garrison = <<2>>],
    [Ent(MARINE, PLAYER, 300) EXCEPT !.state = "GARRISONED", !.containerId = 1],
    [Ent(MARINE, PLAYER, 280) EXCEPT !.hp = 2],
    Ent(MEDIC, PLAYER, 270),
    Ent(MARINE, AI, 350),
    Ent(BASE, PLAYER, 200),
    Ent(BASE, AI, 900)>>

\* a bunker holding three marines, two more marines beside it, the AI base in or out of their sight
ArenaGarrison(aiBase) ==
  <<[Ent(BUNKER, PLAYER, 300) EXCEPT !.garrison = <<2, 3, 4>>],
    [Ent(MARINE, PLAYER, 300) EXCEPT !.state = "GARRISONED", !.containerId = 1],
    [Ent(MARINE, PLAYER, 300) EXCEPT !.state = "GARRISONED", !.containerId = 1],
    [Ent(MARINE, PLAYER, 300) EXCEPT !.state = "GARRISONED", !.containerId = 1],
    Ent(MARINE, PLAYER, 280),
    Ent(MARINE, PLAYER, 270),
    Ent(BASE, PLAYER, 200),
    Ent(BASE, AI, aiBase)>>

\* a marine between two AI marines at equal distance, an idle medic behind one of them
ArenaSkirmish ==
  <<Ent(MEDIC, PLAYER, 370),
    [Ent(MARINE, PLAYER, 300) EXCEPT !.state = "ATTACKING", !.targetId = 4],
    Ent(MARINE, AI, 260),
    Ent(MARINE, AI, 340),
    Ent(BASE, PLAYER, 200),
    Ent(BASE, AI, 900)>>

\* a manned bunker and a barracks with two orders, both still under construction, an AI worker in range
ArenaSite ==
  <<[Ent(BUNKER, PLAYER, 300) EXCEPT !.garrison = <<2>>, !.constructionProgress = 0],
    [Ent(MARINE, PLAYER, 300) EXCEPT !.state = "GARRISONED", !.containerId = 1],
    [Ent(BARRACKS, PLAYER, 240) EXCEPT !.trainQueue = <<MARINE, MEDIC>>, !.constructionProgress = 0],
    Ent(WORKER, AI, 350),
    Ent(BASE, PLAYER, 200),
    Ent(BASE, AI, 900)>>

\* a base and a barracks of the player complete an order each in the same tick, one supply is free
ArenaTwoProducers ==
  <<[Ent(BASE, PLAYER, 200) EXCEPT !.trainQueue = <<WORKER>>],
    [Ent(BARRACKS, PLAYER, 240) EXCEPT !.trainQueue = <<MARINE>>],
    Ent(WORKER, PLAYER, 225),
    Ent(BASE, AI, 900)>>

\* a marine on its way into a bunker that is about to fall, a medic healing a worker that is
\* about to die
ArenaRout ==
  <<[Ent(MARINE, PLAYER, 200) EXCEPT !.state = "ENTERING", !.targetId = 3],
    [Ent(MARINE, AI, 340) EXCEPT !.state = "ATTACKING", !.targetId = 3],
    [Ent(BUNKER, PLAYER, 300) EXCEPT !.hp = 2],
    [Ent(MARINE, AI, 540) EXCEPT !.state = "ATTACKING", !.targetId = 5],
    [Ent(WORKER, PLAYER, 500) EXCEPT !.hp = 1],
    [Ent(MEDIC, PLAYER, 510) EXCEPT !.state = "HEALING", !.targetId = 5],
    Ent(BASE, PLAYER, 100),
    Ent(BASE, AI, 900)>>

\* the nodes are mined out; the AI is one worker short of its target on EASY
ArenaHive ==
  <<Ent(BASE, AI, 900), Ent(SUPPLY_DEPOT, AI, 950),
    Ent(WORKER, AI, 800), Ent(WORKER, AI, 810), Ent(WORKER, AI, 820), Ent(WORKER, AI, 830),
    Ent(WORKER, AI, 840), Ent(WORKER, AI, 850), Ent(WORKER, AI, 860),
    Ent(BASE, PLAYER, 100)>>

\* the nodes are mined out; the AI has n barracks, the last one under construction, and a builder
ArenaBarracksRow(n) ==
  [i \in 1..n |-> [Ent(BARRACKS, AI, 700 + 40 * i) EXCEPT !.constructionProgress = IF i = n THEN 0 ELSE 100]]
    \o <<Ent(WORKER, AI, 900), Ent(SUPPLY_DEPOT, AI, 950), Ent(BASE, PLAYER, 100)>>

\* the player's base has fallen: a barracks is left, and a worker at a mineral node
ArenaOutpost ==
  <<Ent(BARRACKS, PLAYER, 150),
    [Ent(WORKER, PLAYER, 225) EXCEPT !.state = "GATHERING", !.targetId = 3],
    Ent(MINERAL, NEUTRAL, 240),
    Ent(BASE, AI, 1000)>>

Stock(p, a) == [PLAYER |-> p, AI |-> a]

Starts ==
  {<<ArenaEconomy(10), Stock(150, 200), MEDIUM>>,
   <<ArenaEconomy(16), Stock(50, 50), HARD>>,
   <<ArenaEconomy(24), Stock(150, 0), EASY>>,
   <<ArenaDuel(PLAYER), Stock(50, 0), MEDIUM>>,
   <<ArenaDuel(AI), Stock(0, 50), MEDIUM>>,
   <<ArenaSiege(2, 2), Stock(0, 0), MEDIUM>>,
   <<ArenaSiege(6, 2), Stock(0, 0), EASY>>,
   <<ArenaSiege(2, 6), Stock(0, 0), MEDIUM>>,
   <<ArenaBunker, Stock(100, 0), MEDIUM>>,
   <<ArenaGarrison(500), Stock(0, 0), MEDIUM>>,
   <<ArenaGarrison(900), Stock(0, 0), MEDIUM>>,
   <<ArenaSkirmish, Stock(0, 0), MEDIUM>>,
   <<ArenaOutpost, Stock(0, 0), MEDIUM>>,
   <<ArenaSite, Stock(0, 0), MEDIUM>>,
   <<ArenaTwoProducers, Stock(0, 0), MEDIUM>>,
   <<ArenaRout, Stock(0, 0), MEDIUM>>,
   <<ArenaHive, Stock(0, 100), EASY>>,
   <<ArenaBarracksRow(2), Stock(0, 150), MEDIUM>>,
   <<ArenaBarracksRow(3), Stock(0, 150), MEDIUM>>}

\* the starts from which the two-instance runs begin
TwinStarts ==
  {<<ArenaEconomy(16), Stock(50, 50), HARD>>,
   <<ArenaEconomy(24), Stock(150, 0), EASY>>,
   <<ArenaBunker, Stock(100, 0), MEDIUM>>}

InitWith(starts, frames) ==
  \E s \in starts : \E a \in {s[1]}, r \in {s[2]}, d \in {s[3]} :
    /\ entities = [i \in 1..Len(a) |-> a[i]]
    /\ order = [i \in 1..Len(a) |-> i]
    /\ resources = r
    /\ supply = RecalculateSupply([i \in 1..Len(a) |-> a[i]], [i \in 1..Len(a) |-> i])
    /\ effects = <<>>
    /\ notifications = <<>>
    /\ gameTime = 0
    /\ victory = NoVictory
    /\ paused = FALSE
    /\ difficulty = d
    /\ idCounter = Len(a)
    /\ events = <<>>
    /\ lastHit = [i \in 1..MaxId |-> 0 - 1]
    /\ engaged = [i \in 1..MaxId |-> FALSE]
    /\ gap = [i \in 1..MaxId |-> 0 - 1]
    /\ wasCapped = [i \in 1..MaxId |-> FALSE]
    /\ taken = [i \in 1..MaxId |-> 0]
    /\ stock0 = [i \in 1..MaxId |-> IF i <= Len(a) /\ a[i].type = MINERAL THEN a[i].resourceAmount ELSE 0]
    /\ twin = GameState
    /\ NetInit
    /\ SideInit
    /\ noRushFrames \in frames
    /\ hosting = NoHost

\* a match started without a no-rush period (GameCanvas: noRushSeconds = 0)
InitFrom(starts) == InitWith(starts, {0})

Init == InitFrom(Starts)

(* ------------------------------ actions -------------------------------- *)
Did(evs, k, a) == \E i \in 1..Len(evs) : evs[i].k = k /\ evs[i].a = a
Amount(evs, k, b) ==
  LET hits == {i \in 1..Len(evs) : evs[i].k = k /\ evs[i].b = b}
  IN SumOver([i \in hits |-> evs[i].n], hits)

\* GameCanvas.loop (part_000 617-624): the frame of a paused or decided match changes nothing
\* the loop's test without the pause flag
RunningWhilePaused(st) == st.victory = NoVictory

\* loop (part_000 618): if (!victory && !paused)
Running(st) == st.victory = NoVictory /\ ~st.paused

Frame(st, rnd) ==
  IF Running(st) THEN updateGame(st, rnd) ELSE st

StateOf(r) == [entities |-> r.entities, order |-> r.order, resources |-> r.resources, supply |-> r.supply,
               effects |-> r.effects, notifications |-> r.notifications, gameTime |-> r.gameTime,
               victory |-> r.victory, paused |-> r.paused, difficulty |-> r.difficulty,
               idCounter |-> r.idCounter]

\* one animation frame
Tick ==
  /\ Running(GameState)
  /\ gameTime < MaxTime
  /\ \E rnd \in Rand : \E r \in {updateGame(GameState, rnd)} :
       /\ r.idCounter <= MaxId
       /\ SetGameState(r)
       /\ events' = r.ev
       /\ lastHit' = [i \in 1..MaxId |-> IF Did(r.ev, "hit", i) THEN gameTime ELSE lastHit[i]]
       /\ engaged' = [i \in 1..MaxId |-> Did(r.ev, "hit", i) \/ (engaged[i] /\ Did(r.ev, "wait", i))]
       /\ gap' = [i \in 1..MaxId |-> IF Did(r.ev, "hit", i) /\ lastHit[i] >= 0 THEN gameTime - lastHit[i] ELSE gap[i]]
       /\ wasCapped' = [i \in 1..MaxId |-> Did(events, "capped", i)]
       /\ taken' = [i \in 1..MaxId |-> taken[i] + Amount(r.ev, "harvest", i)]
  /\ UNCHANGED <<stock0, netVars>>

Loop == Tick /\ UNCHANGED twin

CommandFrame == gameTime % CmdEvery = 0 \/ victory # NoVictory

\* addNotification(state, text) from a command handler
addNotification(notes, text) ==
  IF \E i \in 1..Len(notes) : notes[i].text = text /\ notes[i].life > 60
  THEN notes
  ELSE Append(notes, [text |-> text, life |-> 120])

\* Interface (part_001 35-43): the unit types a selected building offers
TrainMenu(t) == IF t = BASE THEN {WORKER} ELSE IF t = BARRACKS THEN {MARINE, MEDIC} ELSE {}

\* handleCommand TRAIN (part_000 109-127)
handleTrain(st, id, type) ==
  IF id \in DOMAIN st.entities /\ st.entities[id].owner = PLAYER
  THEN IF st.resources[PLAYER] >= STATS[type].cost
       THEN IF Len(st.entities[id].trainQueue) < 5
            THEN [st EXCEPT !.entities[id].trainQueue = Append(@, type),
                            !.resources[PLAYER] = @ - STATS[type].cost]
            ELSE st
       ELSE [st EXCEPT !.notifications = addNotification(@, "Not Enough Minerals!")]
  ELSE st

Train(id, type) ==
  /\ CommandFrame
  /\ id \in DOMAIN entities
  /\ entities[id].owner = PLAYER
  /\ type \in TrainMenu(entities[id].type)
  /\ SetGameState(handleTrain(GameState, id, type))
  /\ UNCHANGED <<historyVars, twin, netVars>>

\* handleMouseDown with commandMode BUILD_<type> (part_000 723-740)
handleBuild(st, type, pos) ==
  IF st.paused THEN st
  ELSE IF st.resources[PLAYER] >= STATS[type].cost
       THEN [st EXCEPT !.resources[PLAYER] = @ - STATS[type].cost,
                       !.entities = (st.idCounter + 1 :> [createEntity(type, PLAYER, pos)
                                                            EXCEPT !.constructionProgress = 0]) @@ @,
                       !.order = Append(@, st.idCounter + 1),
                       !.idCounter = @ + 1]
       ELSE [st EXCEPT !.notifications = addNotification(@, "Not Enough Minerals!")]

Build(type, pos) ==
  /\ CommandFrame
  /\ ~paused
  /\ idCounter < MaxId
  /\ \E w \in DOMAIN entities : entities[w].owner = PLAYER /\ entities[w].type = WORKER
  /\ SetGameState(handleBuild(GameState, type, pos))
  /\ UNCHANGED <<historyVars, twin, netVars>>

\* handleCommand TOGGLE_PAUSE (part_000 95-99)
handleTogglePause(st) == [st EXCEPT !.paused = ~st.paused]

TogglePause ==
  /\ CommandFrame
  /\ SetGameState(handleTogglePause(GameState))
  /\ UNCHANGED <<historyVars, twin, netVars>>

\* handleMouseUp, right click on an own bunker with the unit id selected (part_000 821-846)
handleEnter(st, id, bid) ==
  IF id \in DOMAIN st.entities /\ st.entities[id].owner = PLAYER
  THEN IF st.entities[bid].owner = PLAYER /\ st.entities[bid].type = BUNKER /\ st.entities[id].type = MARINE
       THEN [st EXCEPT !.entities[id].state = "ENTERING",
                       !.entities[id].targetId = bid,
                       !.entities[id].targetPosition = NoPos]
       ELSE st
  ELSE st

Enter(id, bid) ==
  /\ CommandFrame
  /\ ~paused
  /\ id \in DOMAIN entities
  /\ bid \in DOMAIN entities
  /\ entities[id].owner = PLAYER /\ entities[id].type = MARINE /\ entities[id].state # "GARRISONED"
  /\ entities[bid].owner = PLAYER /\ entities[bid].type = BUNKER
  /\ SetGameState(handleEnter(GameState, id, bid))
  /\ UNCHANGED <<historyVars, twin, netVars>>

\* where the player places a structure
BuildSite == 150

Next ==
  \/ Loop
  \/ \E id \in 1..MaxId, t \in {WORKER, MARINE, MEDIC} : Train(id, t)
  \/ \E t \in {SUPPLY_DEPOT, BARRACKS} : Build(t, BuildSite)
  \/ TogglePause
  \/ \E id \in 1..MaxId, bid \in 1..MaxId : Enter(id, bid)

Spec == Init /\ [][Next]_vars

(* ------------------- the player's right-click orders -------------------- *)
\* isEntityVisible (part_000 65-74)
isEntityVisible(st, eid) ==
  \/ st.entities[eid].owner = PLAYER
  \/ \E u \in DOMAIN st.entities :
        /\ st.entities[u].owner = PLAYER /\ st.entities[u].state # "GARRISONED"
        /\ getDistance(st.entities[eid].pos, st.entities[u].pos)
             < STATS[st.entities[u].type].vision + STATS[st.entities[eid].type].radius

\* handleCommand SET_RALLY (part_000 150-157)
handleSetRally(st, id, pos, targetId) ==
  IF id \in DOMAIN st.entities
  THEN [st EXCEPT !.entities[id].rallyPoint = pos, !.entities[id].rallyTargetId = targetId]
  ELSE st

\* where the player right-clicks open ground
RallySite == 180

\* the player sets rally points in the frames up to this one
RallyBy == 0

\* handleMouseUp, right button, a BASE or BARRACKS selected (part_000 780-819): the click is on
\* open ground or on a visible entity
SetRally(id, clicked) ==
  /\ CommandFrame
  /\ gameTime <= RallyBy
  /\ ~paused
  /\ id \in DOMAIN entities
  /\ entities[id].owner = PLAYER /\ entities[id].type \in {BASE, BARRACKS}
  /\ clicked # NoId => (clicked \in DOMAIN entities /\ isEntityVisible(GameState, clicked))
  /\ SetGameState(handleSetRally(GameState, id,
                                  IF clicked = NoId THEN RallySite ELSE entities[clicked].pos, clicked))
  /\ UNCHANGED <<historyVars, twin, netVars>>

\* a base and a barracks of the player with orders queued, a mineral node and an AI worker in
\* sight of them, an AI barracks with an order
ArenaRally ==
  <<[Ent(BASE, PLAYER, 200) EXCEPT !.trainQueue = <<WORKER>>],
    [Ent(BARRACKS, PLAYER, 240) EXCEPT !.trainQueue = <<MARINE, MEDIC>>],
    Ent(SUPPLY_DEPOT, PLAYER, 160),
    Ent(MINERAL, NEUTRAL, 270),
    Ent(WORKER, AI, 300),
    [Ent(BARRACKS, AI, 900) EXCEPT !.trainQueue = <<MARINE>>],
    Ent(SUPPLY_DEPOT, AI, 950)>>

InitRally == InitFrom({<<ArenaRally, Stock(0, 0), MEDIUM>>})

NextRally ==
  \/ Loop
  \/ \E id \in 1..MaxId, clicked \in 1..MaxId \cup {NoId} : SetRally(id, clicked)

SpecRally == InitRally /\ [][NextRally]_vars

\* handleMouseUp, right button, units selected (part_000 820-852): the order the click gives to
\* the selected unit id; clicked is the visible entity under the pointer, NoId on open ground
handleOrder(st, id, clicked, pos) ==
  IF ~(id \in DOMAIN st.entities /\ st.entities[id].owner = PLAYER) THEN st
  ELSE IF clicked # NoId THEN
    LET unit == st.entities[id]
        clickedEntity == st.entities[clicked]
    IN
    IF clickedEntity.owner = NEUTRAL /\ clickedEntity.type = MINERAL /\ unit.type = WORKER
    THEN [st EXCEPT !.entities[id].state = "GATHERING",
                    !.entities[id].targetId = clicked,
                    !.entities[id].targetPosition = NoPos]
    ELSE IF clickedEntity.owner # PLAYER /\ unit.type \in {MARINE, MEDIC}
    THEN [st EXCEPT !.entities[id].state = IF unit.type = MEDIC THEN "MOVING" ELSE "ATTACKING",
                    !.entities[id].targetId = clicked,
                    !.entities[id].targetPosition = NoPos]
    ELSE IF clickedEntity.owner # PLAYER /\ unit.type = WORKER
    THEN [st EXCEPT !.entities[id].state = "ATTACKING",
                    !.entities[id].targetId = clicked]
    ELSE IF clickedEntity.owner = PLAYER /\ clickedEntity.type = BUNKER /\ unit.type = MARINE
    THEN [st EXCEPT !.entities[id].state = "ENTERING",
                    !.entities[id].targetId = clicked,
                    !.entities[id].targetPosition = NoPos]
    ELSE st
  ELSE [st EXCEPT !.entities[id].state = "MOVING",
                  !.entities[id].targetPosition = pos,
                  !.entities[id].targetId = NoId]

\* the open ground the player sends units to
OrderSites == {180, 420}

\* the player gives orders in the frames up to this one
OrderBy == 0

\* the selection a right click orders about holds whatever was selected last: a marine that
\* has gone into a bunker since, or every marine of the player after the key 2 (203-212)

Order(id, clicked, pos) ==
  /\ CommandFrame
  /\ gameTime <= OrderBy
  /\ ~paused
  /\ id \in DOMAIN entities
  /\ entities[id].owner = PLAYER /\ STATS[entities[id].type].speed > 0
  /\ clicked # NoId => (clicked \in DOMAIN entities /\ isEntityVisible(GameState, clicked))
  /\ SetGameState(handleOrder(GameState, id, clicked, pos))
  /\ UNCHANGED <<historyVars, twin, netVars>>

\* a medic, a marine and a worker of the player at their base, a mineral node and an AI depot
\* in sight
ArenaOrders ==
  <<Ent(BASE, PLAYER, 200),
    Ent(MEDIC, PLAYER, 250),
    Ent(MARINE, PLAYER, 300),
    Ent(WORKER, PLAYER, 150),
    Ent(MINERAL, NEUTRAL, 120),
    Ent(SUPPLY_DEPOT, AI, 380),
    Ent(BASE, AI, 900)>>

InitOrders == InitFrom({<<ArenaOrders, Stock(0, 0), MEDIUM>>})

NextOrders ==
  \/ Loop
  \/ \E id \in 1..MaxId, clicked \in 1..MaxId \cup {NoId}, pos \in OrderSites : Order(id, clicked, pos)

SpecOrders == InitOrders /\ [][NextOrders]_vars

(* ------------------------- unloading a bunker -------------------------- *)
\* lines 132-144 of handleCommand UNLOAD_ALL: garrison[i..] is put around the bunker at `at`;
\* angles[i] is the cosine of the i-th Math.random() angle, on the line one side or the other
RECURSIVE Unloaded(_, _, _, _, _)
Unloaded(ents, g, i, at, angles) ==
  IF i > Len(g) THEN ents
  ELSE IF g[i] \in DOMAIN ents
       THEN Unloaded([ents EXCEPT ![g[i]].state = "IDLE",
                                  ![g[i]].containerId = NoId,
                                  ![g[i]].pos = at + angles[i] * (STATS[BUNKER].radius + 15)],
                     g, i + 1, at, angles)
       ELSE Unloaded(ents, g, i + 1, at, angles)

\* handleCommand UNLOAD_ALL (part_000 129-148)
handleUnloadAll(st, id, angles) ==
  IF id \in DOMAIN st.entities /\ st.entities[id].type = BUNKER
  THEN [st EXCEPT !.entities = [Unloaded(st.entities, st.entities[id].garrison, 1,
                                         st.entities[id].pos, angles)
                                EXCEPT ![id].garrison = <<>>]]
  ELSE st

\* the Unload button of a selected bunker (part_001 85-91)
UnloadAll(id) ==
  /\ CommandFrame
  /\ gameTime <= OrderBy
  /\ id \in DOMAIN entities
  /\ entities[id].type = BUNKER
  /\ \E angles \in [1..Len(entities[id].garrison) -> {0 - 1, 1}] :
       SetGameState(handleUnloadAll(GameState, id, angles))
  /\ UNCHANGED <<historyVars, twin, netVars>>

\* a bunker holding one marine, another marine beside it
ArenaLoaded ==
  <<[Ent(BUNKER, PLAYER, 300) EXCEPT !.garrison = <<2>>],
    [Ent(MARINE, PLAYER, 300) EXCEPT !.state = "GARRISONED", !.containerId = 1],
    Ent(MARINE, PLAYER, 280),
    Ent(BASE, PLAYER, 200),
    Ent(BASE, AI, 900)>>

InitGarrison == InitFrom({<<ArenaLoaded, Stock(0, 0), MEDIUM>>})

NextGarrison ==
  \/ Loop
  \/ \E id \in 1..MaxId, clicked \in 1..MaxId \cup {NoId}, pos \in OrderSites : Order(id, clicked, pos)
  \/ \E id \in 1..MaxId : UnloadAll(id)

SpecGarrison == InitGarrison /\ [][NextGarrison]_vars

(* ------------------- a match with a no-rush period ---------------------- *)
\* the lengths the lobby offers (NO_RUSH_OPTIONS, in seconds) at 60 frames a second
NoRushFrames == {n * 60 : n \in NoRushOptions}

InitNoRush ==
  InitWith({<<ArenaSkirmish, Stock(0, 0), MEDIUM>>,
            <<ArenaBunker, Stock(100, 0), MEDIUM>>,
            <<ArenaEconomy(24), Stock(150, 0), EASY>>}, NoRushFrames)

SpecNoRush == InitNoRush /\ [][Next]_vars

(* ---------------- two engine instances, the same commands --------------- *)
\* one animation frame of both instances, each with its own Math.random
TwinLoop ==
  /\ Tick
  /\ \E rnd \in Rand : \E r \in {Frame(twin, rnd)} : twin' = StateOf(r)

TwinTrain(id, type) ==
  /\ CommandFrame
  /\ id \in DOMAIN entities
  /\ entities[id].owner = PLAYER
  /\ type \in TrainMenu(entities[id].type)
  /\ SetGameState(handleTrain(GameState, id, type))
  /\ twin' = handleTrain(twin, id, type)
  /\ UNCHANGED <<historyVars, netVars>>

TwinTogglePause ==
  /\ CommandFrame
  /\ SetGameState(handleTogglePause(GameState))
  /\ twin' = handleTogglePause(twin)
  /\ UNCHANGED <<historyVars, netVars>>

InitTwin == InitFrom(TwinStarts)

NextTwin ==
  \/ TwinLoop
  \/ \E id \in 1..MaxId, t \in {WORKER, MARINE, MEDIC} : TwinTrain(id, t)
  \/ TwinTogglePause

SpecTwin == InitTwin /\ [][NextTwin]_vars

(* ---------------------- NetworkService (network.ts) -------------------- *)
\* messages a connection may hold for one end
MaxBox == 1

Msg(type, seed, noRushSeconds, ready) ==
  [type |-> type, seed |-> seed, noRushSeconds |-> noRushSeconds, ready |-> ready]

\* conn && conn.open
IsOpen(lk, l) == l # NoLink /\ lk[l].status = "open"
Live(lk, l) == lk[l].status \in {"dialing", "offered", "open"}
LinksOf(p) == {l \in Links : p \in {l[1], l[2]}}

\* handleConnection (220-244)
handleConnection(svc, lk, l) ==
  IF IsOpen(lk, svc.conn)
  THEN [svc EXCEPT !.reject = @ \cup {l}]
  ELSE [svc EXCEPT !.conn = l, !.data = @ \cup {l}]

\* send (246-252) by the service svc of peer p: the connections afterwards
send(svc, lk, p, msg) ==
  IF IsOpen(lk, svc.conn)
  THEN [lk EXCEPT ![svc.conn].inbox[OtherEnd(svc.conn, p)] = Append(@, msg)]
  ELSE lk

\* the connections after those of ls were closed; what was in flight is lost
Dropped(lk, ls) ==
  [l \in Links |-> IF l \in ls /\ Live(lk, l)
                   THEN [status |-> "closed", inbox |-> [p \in {l[1], l[2]} |-> <<>>]]
                   ELSE lk[l]]

\* the 'close' handlers of handleConnection (237-241) run at each end that installed one
Closed(svcs, ls) ==
  [p \in Peers |-> IF svcs[p].data \cap ls # {}
                   THEN [svcs[p] EXCEPT !.conn = NoLink, !.data = @ \ ls, !.reject = @ \ ls]
                   ELSE [svcs[p] EXCEPT !.reject = @ \ ls]]

\* close (265-270): conn.close(), peer.destroy()
close(svcs, p) ==
  [Closed(svcs, LinksOf(p)) EXCEPT ![p] = [peer |-> FALSE, conn |-> NoLink, data |-> {}, reject |-> {}]]

(* --------------------------- Lobby (part_002) --------------------------- *)
Mounted(p) == lobby[p].game = NoGame

\* enterLobby (138-150) with hostGame (32-102) resolved
EnterLobby(p) ==
  /\ Mounted(p)
  /\ lobby[p].mode = "MENU"
  /\ lobby' = [lobby EXCEPT ![p].mode = "LOBBY", ![p].isHost = TRUE]
  /\ service' = [service EXCEPT ![p].peer = TRUE, ![p].conn = NoLink]
  /\ UNCHANGED <<links, gameVars>>

\* joinPrivate (152-158) up to peer.connect (network.ts 130)
JoinPrivate(p, h) ==
  /\ Mounted(p)
  /\ lobby[p].mode = "LOBBY"
  /\ lobby[p].opponent = NoPeer
  /\ service[p].peer
  /\ service[h].peer
  /\ links[<<p, h>>].status = "none"
  /\ \A l \in Links : Caller(l) = p => links[l].status \notin {"dialing", "offered"}
  /\ links' = [links EXCEPT ![<<p, h>>].status = "dialing"]
  /\ UNCHANGED <<lobby, service, gameVars>>

\* the callee's peer.on('connection') (network.ts 94-96): the connection is not open yet
Arrive(l) ==
  /\ links[l].status = "dialing"
  /\ service[Callee(l)].peer
  /\ links' = [links EXCEPT ![l].status = "offered"]
  /\ service' = [service EXCEPT ![Callee(l)] = handleConnection(@, links, l)]
  /\ UNCHANGED <<lobby, gameVars>>

\* the connection opens: at the callee a rejecting 'open' handler (224-227) sends ERROR; at the
\* caller conn.on('open') (139-143) runs handleConnection and joinPrivate goes on (158-159)
Open(l) ==
  /\ links[l].status = "offered"
  /\ \E opened \in {[links EXCEPT ![l].status = "open"]} :
     \E svc \in {handleConnection(service[Caller(l)], opened, l)} :
     \E told \in {IF l \in service[Callee(l)].reject
                  THEN [opened EXCEPT ![l].inbox[Caller(l)] = Append(@, Msg("ERROR", 0, 0, FALSE))]
                  ELSE opened} :
       /\ service' = [service EXCEPT ![Caller(l)] = svc]
       /\ links' = send(svc, told, Caller(l), Msg("JOIN", 0, 0, FALSE))
  /\ lobby' = [lobby EXCEPT ![Caller(l)].isHost = FALSE]
  /\ UNCHANGED gameVars

\* handleMsg (98-125) for msg that came from peer from; lk: the connections once msg is taken
handleMsg(p, msg, from, lk) ==
  IF msg.type = "JOIN" /\ lobby[p].opponent = NoPeer THEN
    \E newSeed \in Seeds :
      /\ lobby' = [lobby EXCEPT ![p].opponent = from, ![p].seed = newSeed]
      /\ links' = send(service[p], lk, p, Msg("WELCOME", newSeed, 0, FALSE))
      /\ UNCHANGED service
  ELSE IF msg.type = "WELCOME" /\ lobby[p].opponent = NoPeer THEN
    /\ lobby' = [lobby EXCEPT ![p].seed = msg.seed, ![p].opponent = from, ![p].mode = "LOBBY"]
    /\ links' = lk
    /\ UNCHANGED service
  ELSE IF msg.type = "READY" /\ lobby[p].opponent # NoPeer THEN
    /\ lobby' = [lobby EXCEPT ![p].opponentReady = msg.ready]
    /\ links' = lk
    /\ UNCHANGED service
  ELSE IF msg.type = "START_GAME" /\ lobby[p].opponent # NoPeer THEN
    /\ lobby' = [lobby EXCEPT ![p].game = [seed |-> lobby[p].seed, isHost |-> lobby[p].isHost,
                                           noRushSeconds |-> msg.noRushSeconds, from |-> from]]
    /\ links' = lk
    /\ UNCHANGED service
  ELSE IF msg.type = "ERROR" THEN
    /\ lobby' = [lobby EXCEPT ![p].opponent = NoPeer, ![p].mode = "MENU"]
    /\ links' = Dropped(lk, LinksOf(p))
    /\ service' = close(service, p)
  ELSE
    /\ links' = lk
    /\ UNCHANGED <<lobby, service>>

\* conn.on('data') (233-235) and notify (261-263): only a connection with the handler delivers
Deliver(l, p) ==
  /\ p \in {l[1], l[2]}
  /\ links[l].status = "open"
  /\ links[l].inbox[p] # <<>>
  /\ IF l \in service[p].data /\ Mounted(p)
     THEN handleMsg(p, Head(links[l].inbox[p]), OtherEnd(l, p), [links EXCEPT ![l].inbox[p] = Tail(@)])
     ELSE /\ links' = [links EXCEPT ![l].inbox[p] = Tail(@)]
          /\ UNCHANGED <<lobby, service>>
  /\ UNCHANGED gameVars

\* toggleReady (202-206); the button shows once there is an opponent
ToggleReady(p) ==
  /\ Mounted(p)
  /\ lobby[p].mode = "LOBBY"
  /\ lobby[p].opponent # NoPeer
  /\ \A l \in Links : \A q \in {l[1], l[2]} : Len(links[l].inbox[q]) < MaxBox
  /\ lobby' = [lobby EXCEPT ![p].isReady = ~lobby[p].isReady]
  /\ links' = send(service[p], links, p, Msg("READY", 0, 0, ~lobby[p].isReady))
  /\ UNCHANGED <<service, gameVars>>

\* the rules buttons of the host (416-433)
SelectNoRush(p, n) ==
  /\ Mounted(p)
  /\ lobby[p].mode = "LOBBY"
  /\ lobby[p].opponent # NoPeer
  /\ lobby[p].isHost
  /\ lobby[p].selectedNoRush # n
  /\ lobby' = [lobby EXCEPT ![p].selectedNoRush = n]
  /\ UNCHANGED <<service, links, gameVars>>

\* the start effect (131-136)
StartEffect(p) ==
  /\ Mounted(p)
  /\ lobby[p].isReady
  /\ lobby[p].opponentReady
  /\ lobby[p].isHost
  /\ links' = send(service[p], links, p, Msg("START_GAME", lobby[p].seed, lobby[p].selectedNoRush, FALSE))
  /\ lobby' = [lobby EXCEPT ![p].game = [seed |-> lobby[p].seed, isHost |-> TRUE,
                                         noRushSeconds |-> lobby[p].selectedNoRush, from |-> p]]
  /\ UNCHANGED <<service, gameVars>>

\* setTimeout(() => conn.close(), 500) of a rejected connection (226)
RejectClose(l) ==
  /\ links[l].status = "open"
  /\ l \in service[Callee(l)].reject
  /\ links' = Dropped(links, {l})
  /\ service' = Closed(service, {l})
  /\ UNCHANGED <<lobby, gameVars>>

InitNet == InitFrom({<<ArenaSiege(6, 6), Stock(0, 0), MEDIUM>>})

NextNet ==
  \/ \E p \in Peers : EnterLobby(p)
  \/ \E l \in Links : JoinPrivate(l[1], l[2])
  \/ \E l \in Links : Arrive(l)
  \/ \E l \in Links : Open(l)
  \/ \E l \in Links, p \in Peers : Deliver(l, p)
  \/ \E p \in Peers : ToggleReady(p)
  \/ \E p \in Peers, n \in NoRushOptions : SelectNoRush(p, n)
  \/ \E p \in Peers : StartEffect(p)
  \/ \E l \in Links : RejectClose(l)

SpecNet == InitNet /\ [][NextNet]_vars

(* ------------------------- a peer goes away ---------------------------- *)
\* Lobby state at mount (part_002 83-95)
LobbyAtMount == [mode |-> "MENU", opponent |-> NoPeer, isReady |-> FALSE, opponentReady |-> FALSE,
                 seed |-> 0, isHost |-> FALSE, selectedNoRush |-> 0, game |-> NoGame]

\* the page of peer p is closed or loaded anew: its Peer and its connections are gone, at the
\* other end of each the 'close' handler of handleConnection (237-241) runs, and p starts over
Leave(p) ==
  /\ service[p].peer
  /\ links' = Dropped(links, LinksOf(p))
  /\ service' = close(service, p)
  /\ lobby' = [lobby EXCEPT ![p] = LobbyAtMount]
  /\ UNCHANGED gameVars

InitLeave == InitFrom({<<ArenaSiege(6, 6), Stock(0, 0), MEDIUM>>})

NextLeave ==
  \/ NextNet
  \/ \E p \in Peers : Leave(p)

SpecLeave == InitLeave /\ [][NextLeave]_vars

(* ----------------------------- room codes ------------------------------ *)
\* generateShortId is called (line 47); lines 25-26: result = '', i = 0
GenerateShortId ==
  /\ shortId.pc \in {"idle", "returned"}
  /\ shortId' = [pc |-> "loop", result |-> <<>>, i |-> 0]
  /\ UNCHANGED <<matchVars, lobby, service, links, joining, match, wire>>

\* lines 26-28: one round of the loop
NextChar ==
  /\ shortId.pc = "loop"
  /\ MoreChars(shortId.i)
  /\ \E r \in Randoms :
       shortId' = [shortId EXCEPT !.result = Append(@, charAt(r)), !.i = @ + 1]
  /\ UNCHANGED <<matchVars, lobby, service, links, joining, match, wire>>

\* line 29: return result
ReturnShortId ==
  /\ shortId.pc = "loop"
  /\ ~MoreChars(shortId.i)
  /\ shortId' = [shortId EXCEPT !.pc = "returned"]
  /\ UNCHANGED <<matchVars, lobby, service, links, joining, match, wire>>

InitShortId == InitFrom({<<ArenaSiege(6, 6), Stock(0, 0), MEDIUM>>})

NextShortId ==
  \/ GenerateShortId
  \/ NextChar
  \/ ReturnShortId

SpecShortId == InitShortId /\ [][NextShortId]_vars

(* ------------------- hostGame (network.ts 32-102) ---------------------- *)
\* the codes generateShortId can return, and the public rooms asked for by name
ShortCodes == {"AAAA", "BBBB"}
RoomIds == {"STAR_DRAFT_ROOM_ALPHA"}
\* err.type of the errors a Peer emits while it registers
InitErrors == {"unavailable-id", "network", "server-error"}
TAKEN == "Room is already taken."
NO_FREE_CODE == "Could not find a free game code. Please try again."

\* resolve(v) and reject(e) settle the promise of hostGame once
SettleHost(h, outcome, v) ==
  IF h.promise = "pending" THEN [h EXCEPT !.promise = outcome, !.value = v] ELSE h

\* the test one attempt later
OutOfAttemptsLate(attempts, customId) == attempts > 11 /\ customId = NoCode
\* line 37: attempts > 10 && !customId
OutOfAttempts(attempts, customId) == attempts > 10 /\ customId = NoCode

\* attemptHost (36-98) with the code generateShortId returned: the give-up test, attempts++,
\* peerId = customId || code, new Peer(peerId) with handleOpen and handleInitError attached
attemptHost(h, code) ==
  IF OutOfAttempts(h.attempts, h.customId) THEN
    [SettleHost(h, "rejected", NO_FREE_CODE) EXCEPT !.awaiting = FALSE]
  ELSE [h EXCEPT !.attempts = @ + 1,
                 !.peerId = IF h.customId # NoCode THEN h.customId ELSE code,
                 !.awaiting = TRUE]

\* handleOpen (56-72): this.id = id, resolve(id)
handleOpen(h) ==
  SettleHost([h EXCEPT !.awaiting = FALSE, !.last = "open", !.id = h.peerId], "resolved", h.peerId)

\* handleInitError (74-91)
handleInitError(h, type, code) ==
  LET g == [h EXCEPT !.awaiting = FALSE, !.last = type] IN
  IF type = "unavailable-id" THEN
    IF h.customId # NoCode THEN SettleHost(g, "rejected", TAKEN) ELSE attemptHost(g, code)
  ELSE SettleHost(g, "rejected", type)

\* hostGame(customId) is called (lines 33-35: a new promise, attempts = 0) and attemptHost()
HostGame ==
  /\ ~hosting.awaiting
  /\ \E customId \in {NoCode} \cup RoomIds, code \in ShortCodes :
       hosting' = attemptHost([NoHost EXCEPT !.called = TRUE, !.customId = customId,
                                             !.promise = "pending", !.id = hosting.id], code)
  /\ UNCHANGED <<engineVars, historyVars, twin, lobby, service, links, sideVars, noRushFrames>>

\* the signalling server registered the id: 'open'
PeerOpen ==
  /\ hosting.awaiting
  /\ hosting' = handleOpen(hosting)
  /\ UNCHANGED <<engineVars, historyVars, twin, lobby, service, links, sideVars, noRushFrames>>

\* the signalling server refused, or could not be reached: 'error'
PeerError ==
  /\ hosting.awaiting
  /\ \E type \in InitErrors, code \in ShortCodes :
       hosting' = handleInitError(hosting, type, code)
  /\ UNCHANGED <<engineVars, historyVars, twin, lobby, service, links, sideVars, noRushFrames>>

InitHost == InitFrom({<<ArenaSiege(6, 6), Stock(0, 0), MEDIUM>>})

NextHost ==
  \/ HostGame
  \/ PeerOpen
  \/ PeerError

SpecHost == InitHost /\ [][NextHost]_vars

(* ------------------- joinGame (network.ts 104-182) --------------------- *)
\* reject(e) and resolve() settle a promise once
Settle(j, outcome, e) ==
  IF j.promise = "pending" THEN [j EXCEPT !.promise = outcome, !.error = e] ELSE j

\* lines 161-163: !conn.open and !this.conn
MayTimeOut(svc, lk, l) == lk[l].status # "open" /\ svc.conn = NoLink

\* joinPrivate (part_002 152-157) calls joinGame: the peer of the hosted room is open, so
\* connectToHost runs at once (lines 174-175, 125-171) and arms the timer
JoinGame(p, h) ==
  /\ Mounted(p)
  /\ lobby[p].mode = "LOBBY"
  /\ lobby[p].opponent = NoPeer
  /\ service[p].peer
  /\ joining[p].promise # "pending"
  /\ joining[p].promise = "rejected" => joining[p].caught
  /\ ~joining[p].timer
  /\ links[<<p, h>>].status = "none"
  /\ links' = [links EXCEPT ![<<p, h>>].status = "dialing"]
  /\ joining' = [joining EXCEPT ![p] = [promise |-> "pending", link |-> <<p, h>>, timer |-> TRUE,
                                        error |-> "", caught |-> FALSE]]
  /\ UNCHANGED <<lobby, service, matchVars, shortId, match, wire>>

\* conn.on('open') (139-143): handleConnection, resolve; joinPrivate goes on (158-159);
\* at the callee a rejecting 'open' handler (224-227) sends ERROR
ConnOpen(l) ==
  /\ links[l].status = "offered"
  /\ joining[Caller(l)].link = l
  /\ \E opened \in {[links EXCEPT ![l].status = "open"]} :
     \E svc \in {handleConnection(service[Caller(l)], opened, l)} :
     \E told \in {IF l \in service[Callee(l)].reject
                  THEN [opened EXCEPT ![l].inbox[Caller(l)] = Append(@, Msg("ERROR", 0, 0, FALSE))]
                  ELSE opened} :
       /\ service' = [service EXCEPT ![Caller(l)] = svc]
       /\ links' = IF joining[Caller(l)].promise = "pending"
                   THEN send(svc, told, Caller(l), Msg("JOIN", 0, 0, FALSE))
                   ELSE told
  /\ lobby' = [lobby EXCEPT ![Caller(l)].isHost = IF joining[Caller(l)].promise = "pending" THEN FALSE ELSE @]
  /\ joining' = [joining EXCEPT ![Caller(l)] = Settle(@, "resolved", "")]
  /\ UNCHANGED <<matchVars, shortId, match, wire>>

\* handlePeerError (119-124): the dialled id names no peer
PeerUnavailable(l) ==
  /\ links[l].status = "dialing"
  /\ joining[Caller(l)].link = l
  /\ ~service[Callee(l)].peer
  /\ links' = [links EXCEPT ![l].status = "closed"]
  /\ joining' = [joining EXCEPT ![Caller(l)] = Settle(@, "rejected", "Room not found")]
  /\ UNCHANGED <<lobby, service, matchVars, shortId, match, wire>>

\* conn.on('error') (145-149)
ConnError(l) ==
  /\ links[l].status \in {"dialing", "offered"}
  /\ joining[Caller(l)].link = l
  /\ links' = Dropped(links, {l})
  /\ service' = Closed(service, {l})
  /\ joining' = [joining EXCEPT ![Caller(l)] = Settle(@, "rejected", "connection error")]
  /\ UNCHANGED <<lobby, matchVars, shortId, match, wire>>

\* the setTimeout callback (160-169), 5000 ms after connect
JoinTimeout(p) ==
  /\ joining[p].timer
  /\ IF MayTimeOut(service[p], links, joining[p].link)
     THEN /\ links' = Dropped(links, {joining[p].link})
          /\ service' = Closed(service, {joining[p].link})
          /\ joining' = [joining EXCEPT ![p] = [Settle(@, "rejected", "Connection timed out. Room might be full or closed.")
                                                  EXCEPT !.timer = FALSE]]
     ELSE /\ joining' = [joining EXCEPT ![p].timer = FALSE]
          /\ UNCHANGED <<links, service>>
  /\ UNCHANGED <<lobby, matchVars, shortId, match, wire>>

\* the catch of joinPrivate (160-167): the error is shown and the private room hosted again
\* (hostGame 44-47, 60-61: the old peer destroyed, a new one opened, this.conn = null)
Rehost(p) ==
  /\ joining[p].promise = "rejected"
  /\ ~joining[p].caught
  /\ Mounted(p)
  /\ service' = [close(service, p) EXCEPT ![p].peer = TRUE]
  /\ links' = Dropped(links, LinksOf(p))
  /\ lobby' = [lobby EXCEPT ![p].isHost = TRUE]
  /\ joining' = [joining EXCEPT ![p].caught = TRUE]
  /\ UNCHANGED <<matchVars, shortId, match, wire>>

InitJoin == InitFrom({<<ArenaSiege(6, 6), Stock(0, 0), MEDIUM>>})

NextJoin ==
  \/ \E p \in Peers : EnterLobby(p)
  \/ \E l \in Links : JoinGame(l[1], l[2])
  \/ \E l \in Links : Arrive(l)
  \/ \E l \in Links : ConnOpen(l)
  \/ \E l \in Links : PeerUnavailable(l)
  \/ \E l \in Links : ConnError(l)
  \/ \E p \in Peers : JoinTimeout(p)
  \/ \E p \in Peers : Rehost(p)

\* a timer that was set fires, and an await that was rejected runs its catch; whether and
\* when the network opens a connection or reports an error is up to the network
SpecJoin ==
  /\ InitJoin
  /\ [][NextJoin]_vars
  /\ \A p \in Peers : WF_vars(JoinTimeout(p)) /\ WF_vars(Rehost(p))

(* --------------- multiplayer commands (GameCanvas.tsx) ----------------- *)
\* broadcast (537-541): the payload of a relayed command
Command(action, id, type) == [action |-> action, id |-> id, type |-> type, owner |-> PLAYER]

\* handleCommand TRAIN (543-557) on the state st; sent: whether the command was broadcast
handleTrainMP(st, id, type) ==
  IF id \in DOMAIN st.entities /\ st.entities[id].owner = PLAYER
  THEN IF st.resources[PLAYER] >= STATS[type].cost
       THEN [st |-> [st EXCEPT !.resources[PLAYER] = @ - STATS[type].cost,
                               !.entities[id].trainQueue = Append(@, type)],
             sent |-> TRUE]
       ELSE [st |-> st, sent |-> FALSE]
  ELSE [st |-> st, sent |-> FALSE]

\* handleMsg (507-523) on the state st of the receiving peer
handleMsgMP(st, msg) ==
  IF msg.action = "TRAIN"
  THEN IF msg.id \in DOMAIN st.entities /\ st.entities[msg.id].owner = msg.owner
       THEN IF st.resources[msg.owner] >= STATS[msg.type].cost
            THEN [st EXCEPT !.entities[msg.id].trainQueue = Append(@, msg.type),
                            !.resources[msg.owner] = @ - STATS[msg.type].cost]
            ELSE st
       ELSE st
  ELSE st

\* handleMouseDown in a BUILD_<type> command mode (628-656) with the worker w selected
handleBuildMP(st, type, pos, w) ==
  IF st.resources[PLAYER] >= STATS[type].cost
  THEN [st EXCEPT !.resources[PLAYER] = @ - STATS[type].cost,
                  !.entities = (st.idCounter + 1 :> [createEntity(type, PLAYER, pos)
                                                       EXCEPT !.constructionProgress = 0])
                               @@ [@ EXCEPT ![w].state = "BUILDING", ![w].targetId = st.idCounter + 1],
                  !.idCounter = @ + 1]
  ELSE st

\* the player of side s trains type at the selected building id
TrainMP(s, id, type) ==
  /\ id \in DOMAIN match[s].entities
  /\ match[s].entities[id].owner = PLAYER
  /\ type \in TrainMenu(match[s].entities[id].type)
  /\ \E r \in {handleTrainMP(match[s], id, type)} :
       /\ match' = [match EXCEPT ![s] = r.st]
       /\ wire' = IF r.sent THEN [wire EXCEPT ![Other(s)] = Append(@, Command("TRAIN", id, type))] ELSE wire
  /\ UNCHANGED <<matchVars, lobby, service, links, shortId, joining>>

\* the player of side s places a structure with a worker
BuildMP(s, type, w) ==
  /\ w \in DOMAIN match[s].entities
  /\ match[s].entities[w].owner = PLAYER
  /\ match[s].entities[w].type = WORKER
  /\ match' = [match EXCEPT ![s] = handleBuildMP(@, type, BuildSite, w)]
  /\ UNCHANGED <<matchVars, lobby, service, links, shortId, joining, wire>>

\* conn.on('data') hands the next GAME_COMMAND to the subscribed handleMsg of side s
ReceiveCommand(s) ==
  /\ wire[s] # <<>>
  /\ match' = [match EXCEPT ![s] = handleMsgMP(@, Head(wire[s]))]
  /\ wire' = [wire EXCEPT ![s] = Tail(@)]
  /\ UNCHANGED <<matchVars, lobby, service, links, shortId, joining>>

\* GameCanvas handleCommand RESTART (GameCanvas.tsx 586-590): Math.random() is the new seed
handleRestartMP(s, random) == initGameMP(s, random)

\* 'Restart Operation' in the menu of side s: Interface.changeDifficulty dispatches the RESTART
\* GAME_COMMAND itself (part_001 546-550, 697)
RestartMP(s, random) ==
  /\ match' = [match EXCEPT ![s] = handleRestartMP(s, random)]
  /\ UNCHANGED <<matchVars, lobby, service, links, shortId, joining, wire>>

InitMatch == InitFrom({<<ArenaSiege(6, 6), Stock(0, 0), MEDIUM>>})

NextMatch ==
  \/ \E s \in Sides, id \in 1..MaxId, t \in {WORKER, MARINE, MEDIC} : TrainMP(s, id, t)
  \/ \E s \in Sides, t \in {SUPPLY_DEPOT, BARRACKS}, w \in 1..MaxId : BuildMP(s, t, w)
  \/ \E s \in Sides : ReceiveCommand(s)

SpecMatch == InitMatch /\ [][NextMatch]_vars

\* a match in which the players also use the menu
NextRestart ==
  \/ \E s \in Sides, t \in {SUPPLY_DEPOT, BARRACKS}, w \in 1..MaxId : BuildMP(s, t, w)
  \/ \E s \in Sides, random \in Seeds : RestartMP(s, random)

SpecRestart == InitMatch /\ [][NextRestart]_vars

(* ============================== properties ============================= *)
Ticked == gameTime' = gameTime + 1
Ids == DOMAIN entities

(* C1: in every state returned by updateGame, supply.used of PLAYER and of AI is the summed
   supplyCost of that owner's entities in that state's arena, and supply.max is
   min(200, summed supplyProvided of its fully built entities in that arena). *)
SupplyMatchesArena == \A o \in {PLAYER, AI} : supply[o] = SupplyOf(entities, Ids, o)
C1_SupplyOfReturnedState == [][Ticked => SupplyMatchesArena']_vars

(* C2: an entity whose hp becomes <= 0 during a tick is not in the arena that tick returns. *)
C2_DeadRemovedSameTick ==
  [][Ticked => \A i \in Ids : (entities[i].hp > 0 /\ i \in DOMAIN entities') => entities'[i].hp > 0]_vars

(* C3: in every reachable state every entity has 0 <= hp <= maxHp. *)
C3_HpInRange == \A i \in Ids : 0 <= entities[i].hp /\ entities[i].hp <= entities[i].maxHp

(* C4: victory becomes the opposing owner exactly at the tick in which a faction's building
   count goes from >0 to 0, and no later tick or command changes it. *)
Opponent(o) == IF o = PLAYER THEN AI ELSE PLAYER
Buildings(o) == BuildingCount(entities, order, o)
WipedOut(o) == Buildings(o) > 0 /\ Buildings(o)' = 0
C4_VictoryAtWipeOut ==
  [][/\ Ticked => \A o \in {PLAYER, AI} : WipedOut(o) <=> victory' = Opponent(o)
     /\ victory # NoVictory => victory' = victory]_vars

(* C4 as the engine decides it: the same, and a tick that wipes out both factions names PLAYER. *)
C4_VictoryAtWipeOutPlayerFirst ==
  [][/\ Ticked => victory' = IF WipedOut(AI) THEN PLAYER ELSE IF WipedOut(PLAYER) THEN AI ELSE NoVictory
     /\ victory # NoVictory => victory' = victory]_vars
C4_Decided == victory # NoVictory /\ gameTime > 1
C4_DoubleWipeOut == victory = PLAYER /\ Buildings(PLAYER) = 0 /\ Buildings(AI) = 0

(* C5: a non-worker unit with damage > 0 that keeps attacking a live hostile target in reach takes
   exactly its damage off the target once every attackSpeed ticks; two consecutive hits of one
   attacker are never closer than attackSpeed ticks. *)
HitsBy(evs, a) == Cardinality({i \in 1..Len(evs) : evs[i].k = "hit" /\ evs[i].a = a})
Fighter(a) == a \in Ids /\ entities[a].type # WORKER /\ STATS[entities[a].type].damage > 0
Struck(evs, b) == Amount(evs, "hit", b) + Amount(evs, "bunkerfire", b)
C5_AttackCadence ==
  [][Ticked => \A a \in Ids : Fighter(a) =>
       LET speed == STATS[entities[a].type].attackSpeed
           since == gameTime - lastHit[a]
       IN /\ HitsBy(events', a) <= 1
          /\ (Did(events', "hit", a) /\ lastHit[a] >= 0) => since >= speed
          /\ (Did(events', "hit", a) /\ engaged[a]) => since = speed
          /\ (Did(events', "wait", a) /\ engaged[a]) => since < speed
          /\ \A b \in Ids : (Did(events', "hit", a) /\ a # b /\ b \in DOMAIN entities'
                              /\ Amount(events', "heal", b) = 0)
                             => entities'[b].hp = entities[b].hp - Struck(events', b)]_vars
C5_SecondHit == \E a \in Ids : Fighter(a) /\ Did(events, "hit", a) /\ engaged[a]
                               /\ gap[a] = STATS[entities[a].type].attackSpeed

(* C6: workers never take more from a mineral node than its initial stock. *)
C6_NeverTakeMoreThanStock == \A n \in 1..MaxId : taken[n] <= stock0[n]

(* C7: a producer with queue head u has trainProgress = buildTime(u) - 1 and an unchanged queue
   after every tick in which used + supplyCost(u) > max; trainProgress never reaches buildTime(u);
   the first tick with headroom spawns the unit, pops the queue and resets trainProgress. *)
Producing(p) == p \in Ids /\ Len(entities[p].trainQueue) > 0 /\ entities[p].owner # NEUTRAL
QueueHead(p) == Head(entities[p].trainQueue)
Blocked(o, u) == supply[o].used + STATS[u].supplyCost > supply[o].max
Popped(p) == /\ Len(entities'[p].trainQueue) >= Len(entities[p].trainQueue) - 1
             /\ SubSeq(entities'[p].trainQueue, 1, Len(entities[p].trainQueue) - 1) = Tail(entities[p].trainQueue)
C7_FreezeWhenCapped ==
  [][Ticked => \A p \in Ids : (Producing(p) /\ p \in DOMAIN entities') =>
       IF Blocked(entities[p].owner, QueueHead(p))'
       THEN /\ entities'[p].trainProgress = STATS[QueueHead(p)].buildTime - 1
            /\ entities'[p].trainQueue = entities[p].trainQueue
       ELSE /\ Did(events', "spawn", p)
            /\ Popped(p)
            /\ entities'[p].trainProgress = 0]_vars

(* C7 for a finished producer whose trainProgress had reached buildTime(u) - 1 when the tick began. *)
Ripe(p) == /\ Producing(p)
           /\ entities[p].constructionProgress >= 100
           /\ entities[p].trainProgress = STATS[QueueHead(p)].buildTime - 1
C7_FreezeOnceRipe ==
  [][Ticked => \A p \in Ids :
       /\ (Producing(p) /\ p \in DOMAIN entities' /\ Len(entities'[p].trainQueue) > 0)
            => entities'[p].trainProgress < STATS[Head(entities'[p].trainQueue)].buildTime
       /\ (Ripe(p) /\ p \in DOMAIN entities') =>
            IF supply'[entities[p].owner].used + STATS[QueueHead(p)].supplyCost > supply'[entities[p].owner].max
            THEN /\ entities'[p].trainProgress = STATS[QueueHead(p)].buildTime - 1
                 /\ entities'[p].trainQueue = entities[p].trainQueue
            ELSE /\ Did(events', "spawn", p)
                 /\ Popped(p)
                 /\ entities'[p].trainProgress = 0]_vars
C7_SpawnAfterFreeze == \E p \in Ids : wasCapped[p] /\ Did(events, "spawn", p) /\ entities[p].trainProgress = 0

(* C8: two engine instances started from the same state and fed the same commands have the same
   entity ids, positions, hp and states after every number of ticks. *)
Observed(st) == [i \in DOMAIN st.entities |->
                  [pos |-> st.entities[i].pos, hp |-> st.entities[i].hp, state |-> st.entities[i].state]]
C8_InstancesAgree == Observed(twin) = Observed(GameState)

(* C9: a hosting NetworkService has at most one incoming connection installed (delivering its
   data to the listeners) at a time, under every interleaving of two incoming connections. *)
Installed(p) == {l \in service[p].data : Callee(l) = p /\ Live(links, l)}
C9_OneConnectionPerHost == \A p \in Peers : Cardinality(Installed(p)) <= 1

(* C10: the peers that enter the match of one lobby session pass the same seed and the same
   noRushSeconds to onGameStart. *)
C10_SameSeedAndNoRush ==
  \A p \in Peers, q \in Peers :
    (lobby[p].game # NoGame /\ lobby[q].game # NoGame /\ lobby[p].game.from = lobby[q].game.from)
      => /\ lobby[p].game.seed = lobby[q].game.seed
         /\ lobby[p].game.noRushSeconds = lobby[q].game.noRushSeconds

(* C12: the stockpile of every owner is non-negative in every reachable state. *)
C12_StockpileNonNegative == \A o \in {PLAYER, AI} : resources[o] >= 0

(* C20: no MINERAL of a returned arena has resourceAmount <= 0; the harvest that uses a node up
   removes it in the same tick. *)
C20_NoEmptyMineral == \A i \in Ids : entities[i].type = MINERAL => entities[i].resourceAmount > 0
C20_NodeUsedUp == \E j \in 1..Len(events) : /\ events[j].k = "harvest"
                                            /\ events[j].b \notin Ids
                                            /\ stock0[events[j].b] > 0

(* C14: every bunker's garrison has at most 4 entries; an ENTERING unit that reaches a bunker
   already holding 4 is not added and is IDLE when the tick returns. *)
GarrisonsWithinCapacity == \A b \in Ids : Len(entities[b].garrison) <= 4
TurnedAway(u) == u \in Ids /\ entities[u].state = "ENTERING" /\ Did(events', "full", u)
NotAdded(u) == /\ u \in DOMAIN entities'
               /\ entities'[u].state # "GARRISONED"
               /\ entities'[u].containerId = entities[u].containerId
               /\ \A b \in Ids : (b \in DOMAIN entities' /\ Len(entities[b].garrison) = 4)
                                    => entities'[b].garrison = entities[b].garrison
C14_GarrisonAtMostFour ==
  [][/\ GarrisonsWithinCapacity'
     /\ Ticked => \A u \in Ids : TurnedAway(u) => (NotAdded(u) /\ entities'[u].state = "IDLE")]_vars

(* C14 with the auto-target of the same tick: the unit turned away is IDLE, or ATTACKING the
   hostile it acquired as an idle unit. *)
C14_GarrisonAtMostFourThenIdle ==
  [][/\ GarrisonsWithinCapacity'
     /\ Ticked => \A u \in Ids : TurnedAway(u) =>
          /\ NotAdded(u)
          /\ \/ entities'[u].state = "IDLE"
             \/ /\ entities'[u].state = "ATTACKING"
                /\ entities'[u].targetId = acquireTarget(u, entities, order)]_vars
C14_TurnedAwayAtFull ==
  \E u \in Ids : /\ Did(events, "full", u)
                  /\ \E b \in Ids : entities[b].type = BUNKER /\ Len(entities[b].garrison) = 4

(* C13: while an entity is GARRISONED a tick leaves its position alone, deals it no attack damage,
   never returns it from acquireTarget or findNearest, pushes nobody off it, and counts its
   supplyCost in its owner's supply.used. *)
Sheltered(u) == /\ u \in Ids /\ entities[u].state = "GARRISONED"
                /\ u \in DOMAIN entities' /\ entities'[u].state = "GARRISONED"
Afield(ord) == SelectSeq(ord, LAMBDA i : entities[i].state # "GARRISONED")
NeverFound ==
  /\ \A a \in Ids : \A t \in {acquireTarget(a, entities, order)} :
        t # NoId => entities[t].state # "GARRISONED"
  /\ \A a \in Ids, type \in {"", WORKER, MARINE, BASE, BUNKER}, owner \in {"", PLAYER, AI} :
        \A t \in {findNearest(entities[a].pos, entities, order, type, owner)} :
          t # NoId => entities[t].state # "GARRISONED"
NeverInTheWay ==
  \A a \in Ids : PushAll(entities[a].pos, a, entities, order, 1)
                    = PushAll(entities[a].pos, a, entities, Afield(order), 1)
StillCounted ==
  \A o \in {PLAYER, AI} :
    supply'[o].used = SumOver([i \in Ids |-> IF entities[i].owner = o THEN STATS[entities[i].type].supplyCost ELSE 0], Ids)
C13_GarrisonedIsInert ==
  [][Ticked => /\ \A u \in Ids : Sheltered(u) => /\ entities'[u].pos = entities[u].pos
                                                  /\ entities'[u].hp >= entities[u].hp
                                                  /\ Amount(events', "hit", u) = 0
                                                  /\ Amount(events', "bunkerfire", u) = 0
               /\ NeverFound
               /\ NeverInTheWay
               /\ StillCounted]_vars
C13_HostileBesideGarrison ==
  \E u \in Ids, a \in Ids :
    /\ entities[u].state = "GARRISONED" /\ gameTime > 0
    /\ entities[a].owner = AI /\ entities[a].type = MARINE /\ entities[a].state = "ATTACKING"
    /\ getDistance(entities[a].pos, entities[u].pos) < STATS[MARINE].range
    /\ supply[entities[u].owner].used > 0

(* C15: acquireTarget returns, among the hostile candidates inside the search radius, one of the
   highest score 5000*[it targets the attacker] + (1000 mobile, 100 building) - distance, the
   first such in iteration order, and none exactly when there is no candidate. *)
Candidates(a) ==
  {i \in Ids : /\ entities[i].owner # entities[a].owner /\ entities[i].owner # NEUTRAL
               /\ entities[i].hp > 0
               /\ entities[i].state # "GARRISONED"
               /\ entities[i].type \notin {MOUNTAIN, WATER}
               /\ Abs(entities[a].pos - entities[i].pos) < STATS[entities[a].type].range + 250}
ScoreOf(a, i) ==
  (IF entities[i].targetId = a THEN 5000 ELSE 0)
  + (IF entities[i].type \in {BASE, BARRACKS, BUNKER, SUPPLY_DEPOT} THEN 100 ELSE 1000)
  - Abs(entities[a].pos - entities[i].pos)
Place(i) == CHOOSE k \in 1..Len(order) : order[k] = i
C15_BestTargetFirstOnTies ==
  \A a \in Ids : \A t \in {acquireTarget(a, entities, order)} :
    /\ (t = NoId) <=> (Candidates(a) = {})
    /\ t # NoId => /\ t \in Candidates(a)
                   /\ \A i \in Candidates(a) : /\ ScoreOf(a, i) <= ScoreOf(a, t)
                                                /\ ScoreOf(a, i) = ScoreOf(a, t) => Place(t) <= Place(i)
C15_TieAndRetaliation ==
  /\ gameTime > 0
  /\ \E a \in Ids : \E i \in Candidates(a), j \in Candidates(a) :
        /\ i # j /\ ScoreOf(a, i) = ScoreOf(a, j)
        /\ acquireTarget(a, entities, order) \in {i, j}
  /\ \E a \in Ids : \E i \in Candidates(a), j \in Candidates(a) :
        /\ entities[i].targetId = a /\ entities[j].targetId # a
        /\ Abs(entities[a].pos - entities[j].pos) < Abs(entities[a].pos - entities[i].pos)

(* C17: a stockpile grows by a worker's delivery only when that worker, RETURNING, reaches a
   live BASE of its own owner: every delivery of a tick is made at such a base, it credits the
   whole load and leaves the worker empty, and an owner that has no BASE is credited nothing. *)
Deliveries(evs) == {i \in 1..Len(evs) : evs[i].k = "deposit"}
AtOwnBase(e) ==
  /\ e.b \in Ids
  /\ entities[e.b].type = BASE
  /\ entities[e.b].owner = entities[e.a].owner
  /\ entities[e.b].hp > 0
Delivered(o) ==
  LET mine == {i \in Deliveries(events') : entities[events'[i].a].owner = o}
  IN SumOver([i \in mine |-> events'[i].n], mine)
C17_DepositOnlyAtOwnBase ==
  [][Ticked =>
       /\ \A i \in Deliveries(events') :
            /\ AtOwnBase(events'[i])
            /\ events'[i].n = entities[events'[i].a].resourceAmount
                                + (IF Did(events', "harvest", events'[i].a) THEN RESOURCE_GATHER_AMOUNT ELSE 0)
            /\ events'[i].a \in DOMAIN entities' => entities'[events'[i].a].resourceAmount = 0
       /\ resources'[PLAYER] = resources[PLAYER] + Delivered(PLAYER)
       /\ resources'[AI] <= resources[AI] + Delivered(AI)
       /\ \A o \in {PLAYER, AI} :
            (\A b \in Ids : ~(entities[b].type = BASE /\ entities[b].owner = o)) => resources'[o] <= resources[o]]_vars

(* C16: when two opposing combat units fight each other within range, exactly one of them
   dies: in the tick that reports the death of one duellist, the other one, who was attacking
   it and was last hit by it, is left with hp > 0. *)
Duellist(i) == entities[i].type = MARINE /\ entities[i].state = "ATTACKING"
FoughtWith(i, j) == Duellist(i) /\ entities[i].targetId = j /\ entities[i].lastAttackerId = j
C16_DuelLeavesOneSurvivor ==
  \A j \in 1..MaxId : Did(events, "death", j) =>
    \A i \in Ids : FoughtWith(i, j) => entities[i].hp > 0

(* C19: every room code generateShortId returns has exactly 4 characters, each from the one
   fixed alphabet, which holds none of I, O, Q, 0, 1. The alphabet has 32 symbols in the
   first statement below; it has 31 in the second, which is what the 36 letters and digits less
   those five leave. *)
Alphabet == Range(chars)
Confusable == {"I", "O", "Q", "0", "1"}
WellFormed(code) ==
  /\ Len(code) = 4
  /\ \A k \in 1..Len(code) : code[k] \in Alphabet
  /\ Alphabet \cap Confusable = {}
C19_CodeOfFourFrom32 ==
  shortId.pc = "returned" => WellFormed(shortId.result) /\ Cardinality(Alphabet) = 32
C19_CodeOfFourFrom31 ==
  shortId.pc = "returned" => WellFormed(shortId.result) /\ Cardinality(Alphabet) = 31 /\ Len(chars) = 31
C19_FirstToLastSymbol ==
  shortId.pc = "returned" /\ shortId.result[1] = "A" /\ shortId.result[Len(shortId.result)] = "9"

(* C18: every joinGame call eventually settles: once its promise is pending it is resolved or
   rejected sooner or later, also when the service holds a connection of its own hosted room. *)
C18_JoinSettles ==
  \A p \in Peers : (joining[p].promise = "pending") ~> (joining[p].promise \in {"resolved", "rejected"})

(* C11: a relayed TRAIN is replayed on the receiving peer against the sender's building and the
   sender's stockpile as the receiver holds them: the step in which a peer handles a received
   TRAIN leaves the trainQueue of every entity of its own player (Owner.PLAYER) and its own
   PLAYER stockpile as they were. *)
Handled(s) == wire[s] # <<>> /\ wire'[s] = Tail(wire[s]) /\ Head(wire[s]).action = "TRAIN"
C11_ReplayLeavesReceiverAlone ==
  [][\A s \in Sides : Handled(s) =>
       /\ \A id \in DOMAIN match[s].entities :
            match[s].entities[id].owner = PLAYER =>
              match'[s].entities[id].trainQueue = match[s].entities[id].trainQueue
       /\ match'[s].resources[PLAYER] = match[s].resources[PLAYER]]_vars

(* C21: while the tick counter is below the no-rush length the match was started with, target
   acquisition yields no hostile: the tick that ran at a gameTime below noRushFrames made no
   idle unit, no bunker and no attack-moving unit acquire a target. *)
Acquired(evs) == {i \in 1..Len(evs) : evs[i].k = "acquire"}
C21_NoAcquisitionInGrace ==
  (gameTime > 0 /\ gameTime - 1 < noRushFrames) => Acquired(events) = {}

(* C22: in a tick that an entity starts with constructionProgress < 100, its own update changes
   only its constructionProgress, by 100/buildTime and up to 100: trainProgress, trainQueue,
   target, state and cooldown stay, nothing spawns from it, it acquires no target and deals no
   damage even as a manned bunker, and supply.max of that tick does not count it. *)
Unfinished(i) ==
  entities[i].constructionProgress < 100 /\ entities[i].state # "GARRISONED" /\ ~isTerrain(entities[i].type)
ActedAs(evs, i) ==
  \E k \in 1..Len(evs) : evs[k].a = i /\ evs[k].k \in {"spawn", "capped", "acquire", "bunkerfire", "hit", "heal"}
ProvidedByFinished(o) ==
  LET done == {j \in Ids : entities[j].owner = o /\ entities[j].constructionProgress >= 100}
  IN SumOver([j \in done |-> STATS[entities[j].type].supplyProvided], done)
C22_OnlyConstructionAdvances ==
  [][Ticked => \A i \in Ids : Unfinished(i) =>
       /\ i \in DOMAIN entities'
       /\ entities'[i].constructionProgress =
            Min(100, entities[i].constructionProgress + 100 \div STATS[entities[i].type].buildTime)
       /\ entities'[i].trainProgress = entities[i].trainProgress
       /\ entities'[i].trainQueue = entities[i].trainQueue
       /\ entities'[i].targetId = entities[i].targetId
       /\ entities'[i].state = entities[i].state
       /\ entities'[i].cooldown = entities[i].cooldown
       /\ ~ActedAs(events', i)
       /\ entities[i].owner \in {PLAYER, AI} =>
            supply'[entities[i].owner].max = Min(200, ProvidedByFinished(entities[i].owner))]_vars
C22_MannedSiteUnderFire ==
  /\ gameTime > 0
  /\ \E i \in Ids :
       /\ entities[i].type = BUNKER /\ entities[i].constructionProgress \in 1..99
       /\ Len(entities[i].garrison) > 0
       /\ \E j \in Ids : entities[j].owner = AI /\ Abs(entities[j].pos - entities[i].pos) <= STATS[BUNKER].range
  /\ \E i \in Ids :
       entities[i].type = BARRACKS /\ entities[i].constructionProgress \in 1..99 /\ entities[i].trainQueue # <<>>

(* C23: a producer's orders leave its trainQueue in the order they were appended: every step
   keeps the queue, or appends to it, and a tick removes at most its head, exactly when the
   producer spawned one unit of the head's type and reset trainProgress; a finished producer
   that spawns nothing moves trainProgress, the progress of the head, by one step up to
   buildTime - 1 of the head. *)
IsPrefix(s, t) == Len(s) <= Len(t) /\ SubSeq(t, 1, Len(s)) = s
SpawnsBy(evs, p) == {i \in 1..Len(evs) : evs[i].k = "spawn" /\ evs[i].a = p}
C23_QueueIsFifo ==
  [][\A p \in Ids \cap DOMAIN entities' :
       LET q == entities[p].trainQueue
           q2 == entities'[p].trainQueue
           born == SpawnsBy(events', p)
       IN IF ~Ticked THEN IsPrefix(q, q2)
          ELSE /\ Cardinality(born) <= 1
               /\ IF born # {}
                  THEN /\ q # <<>>
                       /\ IsPrefix(Tail(q), q2)
                       /\ entities'[p].trainProgress = 0
                       /\ \A i \in born : events'[i].b \in DOMAIN entities' =>
                                             entities'[events'[i].b].type = Head(q)
                  ELSE /\ IsPrefix(q, q2)
                       /\ (q # <<>> /\ entities[p].constructionProgress >= 100) =>
                            entities'[p].trainProgress =
                              Min(entities[p].trainProgress + 1, STATS[Head(q)].buildTime - 1)]_vars
\* a producer spawned the unit at the head of a queue whose next order is of another type
C23_HeadOfMixedQueueSpawned ==
  \E p \in Ids : \E i \in SpawnsBy(events, p) :
     /\ entities[p].trainQueue # <<>>
     /\ events[i].b \in Ids
     /\ entities[events[i].b].type # Head(entities[p].trainQueue)

(* C24: after every tick in which a producer of an owner spawned a unit, the supplyCost of that
   owner's entities in the returned state, the new units included, sums to at most the
   supply.max of that tick, also when several producers of the owner complete in the tick. *)
CostOf(obj, o) ==
  LET mine == {i \in DOMAIN obj : obj[i].owner = o} IN SumOver([i \in mine |-> STATS[obj[i].type].supplyCost], mine)
SpawnedFor(evs, o) == {i \in 1..Len(evs) : evs[i].k = "spawn" /\ evs[i].b \in Ids /\ entities[evs[i].b].owner = o}
C24_SpawnsStayUnderCap ==
  [][Ticked => \A o \in {PLAYER, AI} :
       (SpawnedFor(events, o))' # {} => CostOf(entities', o) <= supply'[o].max]_vars

(* C25: the first order of a spawned unit follows the producer's rally: a worker rallied to a
   mineral node starts GATHERING it; a unit rallied to a hostile entity starts ATTACKING it; in
   every other case with a rally point the unit heads for the rally point; and a spawned unit is
   ATTACKING with a targetId only when that target belongs to the enemy faction. *)
HostileTo(o, tid) == tid \in Ids /\ entities[tid].owner \notin {o, NEUTRAL}
FirstOrder(p, u) ==
  LET t == p.rallyTargetId IN
  /\ p.rallyPoint # NoPos =>
       IF u.type = WORKER /\ t \in Ids /\ entities[t].type = MINERAL
       THEN u.state = "GATHERING" /\ u.targetId = t
       ELSE IF HostileTo(p.owner, t)
       THEN u.state = "ATTACKING" /\ u.targetId = t
       ELSE u.targetPosition = p.rallyPoint /\ u.targetId = NoId /\ u.state \in {"MOVING", "ATTACKING"}
  /\ (u.state = "ATTACKING" /\ u.targetId # NoId) => HostileTo(p.owner, u.targetId)
C25_FirstOrderFollowsRally ==
  [][Ticked => \A i \in 1..Len(events') :
       (events'[i].k = "spawn" /\ events'[i].a \in Ids /\ events'[i].b \in DOMAIN entities')
         => FirstOrder(entities[events'[i].a], entities'[events'[i].b])]_vars

(* C26: when a PLAYER producer is blocked by supply in a tick whose gameTime is a multiple of 60
   and the state holds no 'Supply Capped!' notification with life above 60, the state returned
   by that tick holds a 'Supply Capped!' notification. *)
Notified(notes, text) == \E i \in 1..Len(notes) : notes[i].text = text
FreshlyNotified(notes, text) == \E i \in 1..Len(notes) : notes[i].text = text /\ notes[i].life > 60
CappedPlayer(evs) == \E p \in Ids : entities[p].owner = PLAYER /\ Did(evs, "capped", p)
C26_SupplyCappedIsShown ==
  [][(Ticked /\ gameTime % 60 = 0 /\ CappedPlayer(events') /\ ~FreshlyNotified(notifications, "Supply Capped!"))
       => Notified(notifications', "Supply Capped!")]_vars

(* C27: while paused is true or victory is set the frame loop performs no tick: gameTime stays,
   and every step that is not one of the player's commands leaves the set of entities and every
   entity's position, hp, state, cooldown and progress counters as they are; the step that
   pauses or unpauses changes nothing but the paused flag, so the simulation resumes from
   exactly the state it was paused in. *)
Halted == paused \/ victory # NoVictory
Commanded ==
  \/ \E id \in 1..MaxId, t \in {WORKER, MARINE, MEDIC} : Train(id, t)
  \/ \E t \in {SUPPLY_DEPOT, BARRACKS} : Build(t, BuildSite)
  \/ TogglePause
  \/ \E id \in 1..MaxId, bid \in 1..MaxId : Enter(id, bid)
SameWorld ==
  /\ DOMAIN entities' = DOMAIN entities
  /\ order' = order
  /\ \A i \in Ids :
       /\ entities'[i].pos = entities[i].pos
       /\ entities'[i].hp = entities[i].hp
       /\ entities'[i].state = entities[i].state
       /\ entities'[i].cooldown = entities[i].cooldown
       /\ entities'[i].trainProgress = entities[i].trainProgress
       /\ entities'[i].constructionProgress = entities[i].constructionProgress
C27_NoTickWhileHalted ==
  [][/\ Halted => gameTime' = gameTime
     /\ (Halted /\ ~Commanded) => SameWorld
     /\ paused' # paused => UNCHANGED <<entities, order, resources, supply, effects, notifications,
                                         gameTime, victory, idCounter>>]_vars
\* a match paused in mid-course with a unit in action and an order in progress
C27_PausedInMidCourse ==
  /\ paused /\ gameTime > 0
  /\ \E i \in Ids : entities[i].state \in {"ATTACKING", "GATHERING", "RETURNING", "MOVING"}
  /\ \E p \in Ids : entities[p].trainProgress > 0

(* C28: in a multiplayer match no step replaces the world a peer created at match start from the
   shared seed with a locally re-initialised one: the seed of each side's world stays the shared
   one and its id counter never goes back. *)
C28_NoRestartInMatch ==
  [][\A s \in Sides : /\ match'[s].seed = match[s].seed
                       /\ match'[s].idCounter >= match[s].idCounter]_vars

(* C29: an entity that starts a tick ATTACKING without a targetPosition, ENTERING or HEALING, with
   a targetId that names no entity of the arena, is IDLE in the returned state or holds a target
   that is an entity of the returned arena. *)
Dangling(i) ==
  /\ entities[i].targetId # NoId
  /\ entities[i].targetId \notin Ids
  /\ \/ entities[i].state \in {"ENTERING", "HEALING"}
     \/ entities[i].state = "ATTACKING" /\ entities[i].targetPosition = NoPos
C29_AttackerLostTarget ==
  \E i \in Ids : entities[i].state = "ATTACKING" /\ Dangling(i)
C29_MedicLostPatient ==
  \E i \in Ids : entities[i].state = "HEALING" /\ Dangling(i)

(* C30: an entity in state MOVING steps toward its targetPosition in every tick until it is within
   distance 10 of it: after each tick it has left MOVING, with IDLE and the targetPosition
   cleared on arrival, or it is strictly nearer to its targetPosition than before, so that no
   entity stays MOVING forever. *)
Remaining(e) == getDistance(e.pos, e.targetPosition)
C30_MovingComesNearer ==
  [][Ticked => \A i \in Ids \cap DOMAIN entities' :
       entities[i].state = "MOVING" =>
         IF entities'[i].state = "MOVING"
         THEN /\ entities[i].targetPosition # NoPos
              /\ entities'[i].targetPosition = entities[i].targetPosition
              /\ Remaining(entities'[i]) < Remaining(entities[i])
         ELSE entities'[i].state = "IDLE" => entities'[i].targetPosition = NoPos]_vars

(* C31: an entity whose STATS speed is 0 (a building, a mineral node, terrain) is never moved by
   a tick, whatever overlaps it or attacks it. *)
C31_ImmobileStaysPut ==
  [][Ticked => \A i \in Ids \cap DOMAIN entities' :
       STATS[entities[i].type].speed = 0 => entities'[i].pos = entities[i].pos]_vars
\* after a tick a unit stands inside the separation radius of a building
C31_BuildingCrowded ==
  /\ gameTime > 0
  /\ \E b \in Ids, u \in Ids :
       /\ isBuilding(entities[b].type) /\ STATS[entities[u].type].speed > 0
       /\ entities[u].state # "GARRISONED"
       /\ getDistance(entities[b].pos, entities[u].pos) \in
            1..(STATS[entities[b].type].radius + STATS[entities[u].type].radius + 4)

(* C32: the AI never owns more workers than the target of the match's difficulty (8 on EASY, 12
   on MEDIUM, 16 on HARD) and never more barracks than its quota (3, on HARD 5), those under
   construction counted. *)
OwnedByAI(t) == Cardinality({i \in Ids : entities[i].owner = AI /\ entities[i].type = t})
C32_AtBarracksQuota ==
  /\ difficulty = MEDIUM /\ OwnedByAI(BARRACKS) = 3 /\ gameTime > 0
  /\ \E b \in Ids : entities[b].type = BARRACKS /\ entities[b].owner = AI /\ b > 5


(* C33: a hostGame call settles as soon as no registration is waiting for its answer, and only
   then: on 'open' it is resolved with the id that was registered; without a custom id every
   'unavailable-id' leads to another attempt until the eleventh, whose refusal rejects with the
   no-free-code error; with a custom id the first 'unavailable-id' rejects with "Room is already
   taken." and no second attempt is made; any other error rejects with that error. *)
C33_HostGameSettles ==
  hosting.called =>
    /\ hosting.attempts \in 1..11
    /\ hosting.awaiting <=> hosting.promise = "pending"
    /\ hosting.awaiting /\ hosting.attempts > 1 =>
         hosting.customId = NoCode /\ hosting.last = "unavailable-id"
    /\ ~hosting.awaiting =>
         CASE hosting.last = "open" ->
                /\ hosting.promise = "resolved"
                /\ hosting.value = hosting.peerId
                /\ hosting.id = hosting.peerId
           [] hosting.last = "unavailable-id" /\ hosting.customId # NoCode ->
                /\ hosting.promise = "rejected"
                /\ hosting.value = "Room is already taken."
                /\ hosting.attempts = 1
           [] hosting.last = "unavailable-id" /\ hosting.customId = NoCode ->
                /\ hosting.promise = "rejected"
                /\ hosting.value = "Could not find a free game code. Please try again."
                /\ hosting.attempts = 11
           [] OTHER ->
                /\ hosting.promise = "rejected"
                /\ hosting.value = hosting.last

\* the eleventh generated code was taken as well, and the call gave up
C33_GaveUpAfterEleven ==
  /\ hosting.called
  /\ hosting.customId = NoCode
  /\ hosting.attempts = 11
  /\ hosting.promise = "rejected"
  /\ hosting.last = "unavailable-id"

\* a named room that was taken
C33_RoomTaken ==
  hosting.customId # NoCode /\ hosting.promise = "rejected" /\ hosting.last = "unavailable-id"

\* a retry that was registered
C33_OpenedOnRetry ==
  hosting.attempts > 1 /\ hosting.promise = "resolved"


\* the JOIN at the head of what connection l holds for its callee is handled by the callee's
\* Lobby in this step
JoinHandled(l) ==
  /\ links[l].status = "open"
  /\ links[l].inbox[Callee(l)] # <<>>
  /\ Head(links[l].inbox[Callee(l)]).type = "JOIN"
  /\ l \in service[Callee(l)].data
  /\ Mounted(Callee(l))
  /\ links'[l].status = "open"
  /\ links'[l].inbox[Callee(l)] = Tail(links[l].inbox[Callee(l)])

(* C34: a joiner whose connection is the only one its host holds, and is the one the host has
   installed, is answered: the step in which the host's Lobby handles its JOIN, the joiner not
   being its opponent yet, puts a WELCOME with the host's seed on the way to the joiner,
   whether or not the host had an opponent before who has gone. *)
C34_JoinIsWelcomed ==
  [][\A l \in Links :
       (/\ JoinHandled(l)
        /\ service[Callee(l)].conn = l
        /\ lobby[Callee(l)].opponent # Caller(l)
        /\ \A k \in LinksOf(Callee(l)) \ {l} : ~Live(links, k))
       => /\ links'[l].inbox[Caller(l)] # <<>>
          /\ LET m == links'[l].inbox[Caller(l)][Len(links'[l].inbox[Caller(l)])] IN
               m.type = "WELCOME" /\ m.seed = lobby'[Callee(l)].seed]_vars


(* C35: a peer enters the match only while ready: a step that takes a Lobby into the game
   starts from a state where that peer's own ready flag is true, and, when it is the peer
   that sends START_GAME, where the last READY it took from its opponent was true. *)
C35_StartOnlyWhenReady ==
  [][\A p \in Peers :
       (lobby[p].game = NoGame /\ lobby'[p].game # NoGame)
       => /\ lobby[p].isReady
          /\ lobby'[p].game.from = p => lobby[p].opponentReady]_vars

\* the half of it that is about the peer that sends START_GAME
C35_HostStartsWhenReady ==
  [][\A p \in Peers :
       (lobby[p].game = NoGame /\ lobby'[p].game # NoGame /\ lobby'[p].game.from = p)
       => lobby[p].isReady /\ lobby[p].opponentReady]_vars


(* C36: the garrison lists and the units agree: every id in a bunker's garrison is an entity
   of the arena in state GARRISONED whose containerId is that bunker, every entity in state
   GARRISONED is in the garrison of the bunker its containerId names, and no id is listed
   twice, in one list or in two. *)
C36_GarrisonAgrees ==
  /\ \A b \in Ids : \A k \in 1..Len(entities[b].garrison) :
        LET u == entities[b].garrison[k] IN
        /\ u \in Ids
        /\ entities[u].state = "GARRISONED"
        /\ entities[u].containerId = b
  /\ \A u \in Ids : entities[u].state = "GARRISONED" =>
        /\ entities[u].containerId \in Ids
        /\ \E k \in 1..Len(entities[entities[u].containerId].garrison) :
              entities[entities[u].containerId].garrison[k] = u
  /\ \A b, d \in Ids : \A k \in 1..Len(entities[b].garrison), j \in 1..Len(entities[d].garrison) :
        entities[b].garrison[k] = entities[d].garrison[j] => b = d /\ k = j


\* what an entity does to the arena
Deeds == {"hit", "bunkerfire", "heal", "harvest", "deposit", "enter"}
\* the damage evs[1..i-1] dealt to a
DamageBefore(evs, a, i) ==
  LET hits == {j \in 1..(i - 1) : evs[j].k \in {"hit", "bunkerfire"} /\ evs[j].b = a}
  IN SumOver([j \in hits |-> evs[j].n], hits)
HealedBefore(evs, a, i) == \E j \in 1..(i - 1) : evs[j].k = "heal" /\ evs[j].b = a

(* C37: an entity at hp <= 0 does nothing more: whoever deals damage, heals, harvests,
   deposits or enters a bunker in a tick has, at that moment of the tick, hp > 0, that is, the
   hp it began the tick with less the damage dealt to it earlier in the tick (nobody having
   healed it in between). *)
C37_FallenActsNoMore ==
  [][Ticked =>
       \A i \in 1..Len(events') :
         (/\ events'[i].k \in Deeds
          /\ events'[i].a \in Ids
          /\ ~HealedBefore(events', events'[i].a, i))
         => entities[events'[i].a].hp - DamageBefore(events', events'[i].a, i) > 0]_vars


\* the listeners of peer p are handed the message at the head of connection l in this step
HandedTo(p, l) == Deliver(l, p) /\ l \in service[p].data /\ Mounted(p)

(* C38: this.conn goes back to null only when the connection it refers to is closed, by the
   other end, by a rejection or by close(): a step that clears it leaves that connection
   closed, so no close of another connection clears it while the one it holds is live. *)
C38_ClearedByItsOwnClose ==
  [][\A p \in Peers :
       (service[p].conn # NoLink /\ service'[p].conn = NoLink) => ~Live(links', service[p].conn)]_vars

(* C38, second half: the listeners are handed data from no connection but the one the service
   holds at that moment. *)
C38_DataFromHeldConnection ==
  [][\A p \in Peers : \A l \in LinksOf(p) : HandedTo(p, l) => service[p].conn = l]_vars

(* C38: both halves. *)
C38_OneConnectionAtATime ==
  [][\A p \in Peers :
       /\ (service[p].conn # NoLink /\ service'[p].conn = NoLink) => ~Live(links', service[p].conn)
       /\ \A l \in LinksOf(p) : HandedTo(p, l) => service[p].conn = l]_vars


(* C39: when the connection a peer dialled opens and joinGame resolves, that connection is the
   one its service holds, and the JOIN sent next is on its way to the host that was dialled. *)
C39_JoinGoesToTheHostDialled ==
  [][\A l \in Links :
       (links[l].status = "offered" /\ links'[l].status = "open")
       => /\ service'[Caller(l)].conn = l
          /\ links'[l].inbox[Callee(l)] # <<>>
          /\ links'[l].inbox[Callee(l)][Len(links'[l].inbox[Callee(l)])].type = "JOIN"]_vars

====
